---------------------------- MODULE Spec2Model ----------------------------
(***************************************************************************)
(* clblast-rs: the shape-checked dispatch layer over the CLBlast C API and *)
(* the translation of its status codes into the typed Error.               *)
(***************************************************************************)
EXTENDS Integers, Sequences, FiniteSets, TLC

VARIABLES pc, desc, calls, status, result

vars == <<pc, desc, calls, status, result>>

(***************************************************************************)
(* Status codes (result.rs).                                               *)
(***************************************************************************)

\* The CLBlastStatusCode__CLBlast* constants of the generated bindings
\* (clblast-sys/src/bindings.rs, written by build.rs from clblast_c.h).  The
\* values are those of the CLBlastStatusCode enum of the upstream header.
CLBlastStatusCode ==
  [
   Success |-> 0,
   OpenCLCompilerNotAvailable |-> -3,
   TempBufferAllocFailure |-> -4,
   OpenCLOutOfResources |-> -5,
   OpenCLOutOfHostMemory |-> -6,
   OpenCLBuildProgramFailure |-> -11,
   InvalidValue |-> -30,
   InvalidCommandQueue |-> -36,
   InvalidMemObject |-> -38,
   InvalidBinary |-> -42,
   InvalidBuildOptions |-> -43,
   InvalidProgram |-> -44,
   InvalidProgramExecutable |-> -45,
   InvalidKernelName |-> -46,
   InvalidKernelDefinition |-> -47,
   InvalidKernel |-> -48,
   InvalidArgIndex |-> -49,
   InvalidArgValue |-> -50,
   InvalidArgSize |-> -51,
   InvalidKernelArgs |-> -52,
   InvalidLocalNumDimensions |-> -53,
   InvalidLocalThreadsTotal |-> -54,
   InvalidLocalThreadsDim |-> -55,
   InvalidGlobalOffset |-> -56,
   InvalidEventWaitList |-> -57,
   InvalidEvent |-> -58,
   InvalidOperation |-> -59,
   InvalidBufferSize |-> -61,
   InvalidGlobalWorkSize |-> -63,
   NotImplemented |-> -1024,
   InvalidMatrixA |-> -1022,
   InvalidMatrixB |-> -1021,
   InvalidMatrixC |-> -1020,
   InvalidVectorX |-> -1019,
   InvalidVectorY |-> -1018,
   InvalidDimension |-> -1017,
   InvalidLeadDimA |-> -1016,
   InvalidLeadDimB |-> -1015,
   InvalidLeadDimC |-> -1014,
   InvalidIncrementX |-> -1013,
   InvalidIncrementY |-> -1012,
   InsufficientMemoryA |-> -1011,
   InsufficientMemoryB |-> -1010,
   InsufficientMemoryC |-> -1009,
   InsufficientMemoryX |-> -1008,
   InsufficientMemoryY |-> -1007,
   InsufficientMemoryTemp |-> -2050,
   InvalidBatchCount |-> -2049,
   InvalidOverrideKernel |-> -2048,
   MissingOverrideParameter |-> -2047,
   InvalidLocalMemUsage |-> -2046,
   NoHalfPrecision |-> -2045,
   NoDoublePrecision |-> -2044,
   InvalidVectorScalar |-> -2043,
   InsufficientMemoryScalar |-> -2042,
   DatabaseError |-> -2041,
   UnknownError |-> -2040,
   UnexpectedError |-> -2039]

\* enum OclError
OclErrorVariants ==
  {"OpenCLCompilerNotAvailable",
   "TempBufferAllocFailure",
   "OpenCLOutOfResources",
   "OpenCLOutOfHostMemory",
   "OpenCLBuildProgramFailure",
   "InvalidValue",
   "InvalidCommandQueue",
   "InvalidMemObject",
   "InvalidBinary",
   "InvalidBuildOptions",
   "InvalidProgram",
   "InvalidProgramExecutable",
   "InvalidKernelName",
   "InvalidKernelDefinition",
   "InvalidKernel",
   "InvalidArgIndex",
   "InvalidArgValue",
   "InvalidArgSize",
   "InvalidKernelArgs",
   "InvalidLocalNumDimensions",
   "InvalidLocalThreadsTotal",
   "InvalidLocalThreadsDim",
   "InvalidGlobalOffset",
   "InvalidEventWaitList",
   "InvalidEvent",
   "InvalidOperation",
   "InvalidBufferSize",
   "InvalidGlobalWorkSize"}

\* enum BlasError
BlasErrorVariants ==
  {"NotImplemented",
   "InvalidMatrixA",
   "InvalidMatrixB",
   "InvalidMatrixC",
   "InvalidVectorX",
   "InvalidVectorY",
   "InvalidDimension",
   "InvalidLeadDimA",
   "InvalidLeadDimB",
   "InvalidLeadDimC",
   "InvalidIncrementX",
   "InvalidIncrementY",
   "InsufficientMemoryA",
   "InsufficientMemoryB",
   "InsufficientMemoryC",
   "InsufficientMemoryX",
   "InsufficientMemoryY"}

\* enum BlastError
BlastErrorVariants ==
  {"InsufficientMemoryTemp",
   "InvalidBatchCount",
   "InvalidOverrideKernel",
   "MissingOverrideParameter",
   "InvalidLocalMemUsage",
   "NoHalfPrecision",
   "NoDoublePrecision",
   "InvalidVectorScalar",
   "InsufficientMemoryScalar",
   "DatabaseError",
   "UnknownError",
   "UnexpectedError"}

\* Option<T>
None == [tag |-> "None"]

Some(v) == [tag |-> "Some", value |-> v]

\* Result<(), Error>
Ok == [tag |-> "Ok"]

Err(e) == [tag |-> "Err", err |-> e]

\* enum Error { Ocl { source }, Blas { source }, Blast { source }, Unknown { status_code } }
Error_Ocl(s) == [category |-> "Ocl", source |-> s]

Error_Blas(s) == [category |-> "Blas", source |-> s]

Error_Blast(s) == [category |-> "Blast", source |-> s]

Error_Unknown(status_code) == [category |-> "Unknown", status_code |-> status_code]

\* One arm `pat => res` of a match on an integer.
Arm(pat, res) == [pat |-> pat, res |-> res]

\* `match status_code { arms..., _ => None }`: the first arm whose pattern
\* equals the scrutinee decides; the wildcard arm yields None.
Match(arms, status_code) ==
  LET hits == {i \in DOMAIN arms : arms[i].pat = status_code}
  IN  IF hits = {} THEN None
      ELSE arms[CHOOSE i \in hits : \A j \in hits : i <= j].res

\* The arms of the match in OclError::from_c, in source order.
OclError_arms ==
  <<
    Arm(CLBlastStatusCode.Success, None),
    Arm(CLBlastStatusCode.OpenCLCompilerNotAvailable, Some("OpenCLCompilerNotAvailable")),
    Arm(CLBlastStatusCode.TempBufferAllocFailure, Some("TempBufferAllocFailure")),
    Arm(CLBlastStatusCode.OpenCLOutOfResources, Some("OpenCLOutOfResources")),
    Arm(CLBlastStatusCode.OpenCLOutOfHostMemory, Some("OpenCLOutOfHostMemory")),
    Arm(CLBlastStatusCode.OpenCLBuildProgramFailure, Some("OpenCLBuildProgramFailure")),
    Arm(CLBlastStatusCode.InvalidValue, Some("InvalidValue")),
    Arm(CLBlastStatusCode.InvalidCommandQueue, Some("InvalidCommandQueue")),
    Arm(CLBlastStatusCode.InvalidMemObject, Some("InvalidMemObject")),
    Arm(CLBlastStatusCode.InvalidBinary, Some("InvalidBinary")),
    Arm(CLBlastStatusCode.InvalidBuildOptions, Some("InvalidBuildOptions")),
    Arm(CLBlastStatusCode.InvalidProgram, Some("InvalidProgram")),
    Arm(CLBlastStatusCode.InvalidProgramExecutable, Some("InvalidProgramExecutable")),
    Arm(CLBlastStatusCode.InvalidKernelName, Some("InvalidKernelName")),
    Arm(CLBlastStatusCode.InvalidKernelDefinition, Some("InvalidKernelDefinition")),
    Arm(CLBlastStatusCode.InvalidKernel, Some("InvalidKernel")),
    Arm(CLBlastStatusCode.InvalidArgIndex, Some("InvalidArgIndex")),
    Arm(CLBlastStatusCode.InvalidArgValue, Some("InvalidArgValue")),
    Arm(CLBlastStatusCode.InvalidArgSize, Some("InvalidArgSize")),
    Arm(CLBlastStatusCode.InvalidKernelArgs, Some("InvalidKernelArgs")),
    Arm(CLBlastStatusCode.InvalidLocalNumDimensions, Some("InvalidLocalNumDimensions")),
    Arm(CLBlastStatusCode.InvalidLocalThreadsTotal, Some("InvalidLocalThreadsTotal")),
    Arm(CLBlastStatusCode.InvalidLocalThreadsDim, Some("InvalidLocalThreadsDim")),
    Arm(CLBlastStatusCode.InvalidGlobalOffset, Some("InvalidGlobalOffset")),
    Arm(CLBlastStatusCode.InvalidEventWaitList, Some("InvalidEventWaitList")),
    Arm(CLBlastStatusCode.InvalidEvent, Some("InvalidEvent")),
    Arm(CLBlastStatusCode.InvalidOperation, Some("InvalidOperation")),
    Arm(CLBlastStatusCode.InvalidBufferSize, Some("InvalidBufferSize")),
    Arm(CLBlastStatusCode.InvalidGlobalWorkSize, Some("InvalidGlobalWorkSize"))
  >>

\* OclError::from_c with the last arm before the wildcard left out.
OclError_from_c_MissingArm(status_code) ==
  Match(SubSeq(OclError_arms, 1, Len(OclError_arms) - 1), status_code)

\* OclError::from_c
OclError_from_c(status_code) == Match(OclError_arms, status_code)

\* The arms of the match in BlasError::from_c, in source order.
BlasError_arms ==
  <<
    Arm(CLBlastStatusCode.NotImplemented, Some("NotImplemented")),
    Arm(CLBlastStatusCode.InvalidMatrixA, Some("InvalidMatrixA")),
    Arm(CLBlastStatusCode.InvalidMatrixB, Some("InvalidMatrixB")),
    Arm(CLBlastStatusCode.InvalidMatrixC, Some("InvalidMatrixC")),
    Arm(CLBlastStatusCode.InvalidVectorX, Some("InvalidVectorX")),
    Arm(CLBlastStatusCode.InvalidVectorY, Some("InvalidVectorY")),
    Arm(CLBlastStatusCode.InvalidDimension, Some("InvalidDimension")),
    Arm(CLBlastStatusCode.InvalidLeadDimA, Some("InvalidLeadDimA")),
    Arm(CLBlastStatusCode.InvalidLeadDimB, Some("InvalidLeadDimB")),
    Arm(CLBlastStatusCode.InvalidLeadDimC, Some("InvalidLeadDimC")),
    Arm(CLBlastStatusCode.InvalidIncrementX, Some("InvalidIncrementX")),
    Arm(CLBlastStatusCode.InvalidIncrementY, Some("InvalidIncrementY")),
    Arm(CLBlastStatusCode.InsufficientMemoryA, Some("InsufficientMemoryA")),
    Arm(CLBlastStatusCode.InsufficientMemoryB, Some("InsufficientMemoryB")),
    Arm(CLBlastStatusCode.InsufficientMemoryC, Some("InsufficientMemoryC")),
    Arm(CLBlastStatusCode.InsufficientMemoryX, Some("InsufficientMemoryX")),
    Arm(CLBlastStatusCode.InsufficientMemoryY, Some("InsufficientMemoryY"))
  >>

\* BlasError::from_c with the InvalidLeadDimB arm yielding the variant of the
\* arm above it.
BlasError_from_c_WrongArm(status_code) ==
  Match([BlasError_arms EXCEPT ![9] = Arm(CLBlastStatusCode.InvalidLeadDimB, Some("InvalidLeadDimA"))],
        status_code)

\* BlasError::from_c with an arm for a code the Ocl tier has as well.
BlasError_from_c_AlsoOclCode(status_code) ==
  Match(Append(BlasError_arms,
               Arm(CLBlastStatusCode.InvalidValue, Some("InvalidDimension"))),
        status_code)

\* BlasError::from_c
BlasError_from_c(status_code) == Match(BlasError_arms, status_code)

\* The arms of the match in BlastError::from_c, in source order.
BlastError_arms ==
  <<
    Arm(CLBlastStatusCode.InsufficientMemoryTemp, Some("InsufficientMemoryTemp")),
    Arm(CLBlastStatusCode.InvalidBatchCount, Some("InvalidBatchCount")),
    Arm(CLBlastStatusCode.InvalidOverrideKernel, Some("InvalidOverrideKernel")),
    Arm(CLBlastStatusCode.MissingOverrideParameter, Some("MissingOverrideParameter")),
    Arm(CLBlastStatusCode.InvalidLocalMemUsage, Some("InvalidLocalMemUsage")),
    Arm(CLBlastStatusCode.NoHalfPrecision, Some("NoHalfPrecision")),
    Arm(CLBlastStatusCode.NoDoublePrecision, Some("NoDoublePrecision")),
    Arm(CLBlastStatusCode.InvalidVectorScalar, Some("InvalidVectorScalar")),
    Arm(CLBlastStatusCode.InsufficientMemoryScalar, Some("InsufficientMemoryScalar")),
    Arm(CLBlastStatusCode.DatabaseError, Some("DatabaseError")),
    Arm(CLBlastStatusCode.UnknownError, Some("UnknownError")),
    Arm(CLBlastStatusCode.UnexpectedError, Some("UnexpectedError"))
  >>

\* BlastError::from_c (its first arm is the guard `_ if status_code == ...InsufficientMemoryTemp`)
BlastError_from_c(status_code) == Match(BlastError_arms, status_code)

\* .map(|s| Error::Ocl {source: s})
map_Ocl(o) == IF o.tag = "Some" THEN Some(Error_Ocl(o.value)) ELSE None

\* .map(|s| Error::Blas {source: s})
map_Blas(o) == IF o.tag = "Some" THEN Some(Error_Blas(o.value)) ELSE None

\* .map(|s| Error::Blast {source : s})
map_Blast(o) == IF o.tag = "Some" THEN Some(Error_Blast(o.value)) ELSE None

\* Option::or_else
Option_or_else(o, alt) == IF o.tag = "Some" THEN o ELSE alt

\* Error::from_c without the test for the success sentinel.
Error_from_c_NoSuccessTest(status_code) ==
  Option_or_else(
    Option_or_else(
      Option_or_else(
        map_Ocl(OclError_from_c(status_code)),
        map_Blas(BlasError_from_c(status_code))),
      map_Blast(BlastError_from_c(status_code))),
    Some(Error_Unknown(status_code)))

\* Error::from_c without the final fallback to Error::Unknown.
Error_from_c_NoFallback(status_code) ==
  IF status_code = CLBlastStatusCode.Success
  THEN None
  ELSE Option_or_else(
         Option_or_else(
           map_Ocl(OclError_from_c(status_code)),
           map_Blas(BlasError_from_c(status_code))),
         map_Blast(BlastError_from_c(status_code)))

\* Error::from_c
Error_from_c(status_code) ==
  IF status_code = CLBlastStatusCode.Success
  THEN None
  ELSE Option_or_else(
         Option_or_else(
           Option_or_else(
             map_Ocl(OclError_from_c(status_code)),
             map_Blas(BlasError_from_c(status_code))),
           map_Blast(BlastError_from_c(status_code))),
         Some(Error_Unknown(status_code)))

\* Error::from_c_either
Error_from_c_either(status_code) ==
  LET r == Error_from_c(status_code)
  IN  IF r.tag = "Some" THEN Err(r.value) ELSE Ok

(***************************************************************************)
(* Values shared by the specifications.                                    *)
(***************************************************************************)

\* No descriptor has been built.
NoDesc == [kind |-> "none"]

\* run has not returned.
NoResult == [tag |-> "NoResult"]

\* Largest i32 (Error::Unknown carries an i32; c_int is i32).
I32Max == 2147483647

I32Min == (0 - I32Max) - 1

\* Status codes are drawn from -CodeSpan..CodeSpan and the two ends of i32.
CodeSpan == 2055

Codes == ((0 - CodeSpan)..CodeSpan) \cup {I32Min, I32Max}

(***************************************************************************)
(* The translator alone: a status code comes back from the native layer    *)
(* and Error::from_c_either turns it into the caller's Result.             *)
(***************************************************************************)

InitTranslate ==
  /\ pc = "returned"
  /\ desc = NoDesc
  /\ calls = <<>>
  /\ status \in {<<c>> : c \in Codes}
  /\ result = NoResult

Translate ==
  /\ pc = "returned"
  /\ desc = NoDesc
  /\ result' = Error_from_c_either(status[1])
  /\ pc' = "done"
  /\ UNCHANGED <<desc, calls, status>>

NextTranslate == Translate

SpecTranslate == InitTranslate /\ [][NextTranslate]_vars

\* The codes some tier has a variant for.
RecognisedCodes ==
  {CLBlastStatusCode[v] : v \in OclErrorVariants \cup BlasErrorVariants \cup BlastErrorVariants}

\* C1: every status code in a tier's enumerated set is translated to Err
\* carrying the variant named after the code, in the category of its tier
\* (Ocl, Blas, Blast).
C1_ExactVariant ==
  pc = "done" /\ desc = NoDesc =>
    /\ \A v \in OclErrorVariants :
         status[1] = CLBlastStatusCode[v] => result = Err(Error_Ocl(v))
    /\ \A v \in BlasErrorVariants :
         status[1] = CLBlastStatusCode[v] => result = Err(Error_Blas(v))
    /\ \A v \in BlastErrorVariants :
         status[1] = CLBlastStatusCode[v] => result = Err(Error_Blast(v))

C1_Witness ==
  /\ pc = "done"
  /\ desc = NoDesc
  /\ status[1] = CLBlastStatusCode.InvalidLeadDimB
  /\ result = Err(Error_Blas("InvalidLeadDimB"))

\* C2: the success sentinel CLBlastSuccess is translated to Ok(()).
C2_SuccessIsOk ==
  pc = "done" /\ desc = NoDesc /\ status[1] = CLBlastStatusCode.Success => result = Ok

C2_Witness ==
  pc = "done" /\ desc = NoDesc /\ status[1] = CLBlastStatusCode.Success /\ result = Ok

\* C3: translation is total and loses nothing: a code that is neither the
\* success sentinel nor recognised by a tier comes back as
\* Err(Unknown { status_code }) with the input code, and every code gets a
\* Result (Ok or Err), never a panic.
C3_UnknownKeepsCode ==
  pc = "done" /\ desc = NoDesc =>
    /\ result.tag \in {"Ok", "Err"}
    /\ (status[1] # CLBlastStatusCode.Success /\ status[1] \notin RecognisedCodes
          => result = Err(Error_Unknown(status[1])))

C3_Witness ==
  /\ pc = "done"
  /\ desc = NoDesc
  /\ status[1] = I32Min
  /\ result = Err(Error_Unknown(I32Min))

(***************************************************************************)
(* Operation descriptors and their dispatch.                               *)
(***************************************************************************)

\* Buffer lengths run over 1..MaxLen, offsets over 0..MaxOffset, element
\* counts over 0..MaxN, strides over 0..MaxStride, matrix dimensions over
\* 1..MaxDim.
MaxLen == 2

MaxOffset == 1

MaxN == 2

MaxStride == 2

MaxDim == 2

\* The scalar types the run impls exist for.
ScalarTypes == {"f32", "f64", "Complex32", "Complex64"}

IsComplex(T) == T \in {"Complex32", "Complex64"}

\* A scalar of type T: a real is a number, a complex the pair (re, im).
Scalar(T, re, im) == IF IsComplex(T) THEN [re |-> re, im |-> im] ELSE re

\* ReprSys::to_c of a complex scalar: the two-element wire struct
\* cl_float2 / cl_double2 { s: [re, im] }.
to_c(z) == [s |-> <<z.re, z.im>>]

\* NeutralMul::ONE
NeutralMul_ONE(T) == Scalar(T, 1, 0)

\* NeutralAdd::ZERO
NeutralAdd_ZERO(T) == Scalar(T, 0, 0)

\* The coefficients a caller passes explicitly.
AlphaValues(T) == {Scalar(T, 2, 3)}

BetaValues(T) == {Scalar(T, 5, 7)}

\* VectorBuffer<T> { buffer, offset }; the buffer is known by its length.
VectorBuffers == [len : 1..MaxLen, offset : 0..MaxOffset]

\* A builder field with a default: left out (None) or set.
StrideOptions == {None} \cup {Some(s) : s \in 0..MaxStride}

\* Option::unwrap_or: what the builder stores for an optional field.
unwrap_or(o, default) == IF o.tag = "Some" THEN o.value ELSE default

\* The width of usize.  It is 64 bits on the targets of the crate; the
\* integers of TLC are 32 bits wide, so the width is scaled down to the
\* largest one whose products TLC can still compute, and the operands that
\* overflow are scaled with it.
UsizeBits == 15

usize_modulus == 2 ^ UsizeBits

\* a * b on usize as a build without overflow checks computes it (a release
\* build): the product modulo 2^64.  A build with overflow checks (a debug
\* build) panics instead when the product does not fit; see OverflowPanics.
usize_mul(a, b) == (a * b) % usize_modulus

\* A failed assert!/assert_eq!/unwrap: the call unwinds with the message.
Panic(msg) == [tag |-> "Panic", msg |-> msg]

\* assert_dimensions returned.
Unit == [tag |-> "Unit"]

\* ptr::null_mut()
NullPtr == "null"

\* The status codes the native library answers with: success, one code of
\* each tier, and one no tier knows.
NativeStatus ==
  {CLBlastStatusCode.Success,
   CLBlastStatusCode.InvalidCommandQueue,
   CLBlastStatusCode.InsufficientMemoryX,
   CLBlastStatusCode.NoDoublePrecision,
   1}

\* run does not return, and the failed check has taken the descriptor apart.
Unwind_DropsDesc(panic) ==
  /\ pc' = "done"
  /\ result' = panic
  /\ desc' = NoDesc
  /\ UNCHANGED <<calls, status>>

\* run does not return: an assertion failed before the native call.
Unwind(panic) ==
  /\ pc' = "done"
  /\ result' = panic
  /\ UNCHANGED <<desc, calls, status>>

\* run calls the native entry point again after an error status.
NativeCall_Retry(fn, args, res) ==
  /\ calls' = IF res = CLBlastStatusCode.Success
              THEN Append(calls, [fn |-> fn, args |-> args])
              ELSE Append(Append(calls, [fn |-> fn, args |-> args]),
                          [fn |-> fn, args |-> args])
  /\ status' = <<res>>
  /\ result' = Error_from_c_either(res)
  /\ pc' = "done"
  /\ UNCHANGED desc

\* run returns a value without translating the status code.
NativeCall_SwallowStatus(fn, args, res) ==
  /\ calls' = Append(calls, [fn |-> fn, args |-> args])
  /\ status' = <<res>>
  /\ result' = Ok
  /\ pc' = "done"
  /\ UNCHANGED desc

\* run puts its native call ahead of the calls issued before it.
NativeCall_Prepends(fn, args, res) ==
  /\ calls' = <<[fn |-> fn, args |-> args]>> \o calls
  /\ status' = <<res>>
  /\ result' = Error_from_c_either(res)
  /\ pc' = "done"
  /\ UNCHANGED desc

\* `let res = CLBlastX(args); Error::from_c_either(res)`: the native entry
\* point is called once, answers res, and run returns its translation.
NativeCall(fn, args, res) ==
  /\ calls' = Append(calls, [fn |-> fn, args |-> args])
  /\ status' = <<res>>
  /\ result' = Error_from_c_either(res)
  /\ pc' = "done"
  /\ UNCHANGED desc

\* sum.rs: VectorSum::builder()...build().  Fields marked #[builder(default = 1)] that
\* the caller leaves out (None here) take the default.
VectorSum_build ==
  /\ pc = "idle"
  /\ \E T \in ScalarTypes :
     \E n \in 0..MaxN,
        sum_vector \in VectorBuffers,
        x_vector \in VectorBuffers,
        x_stride \in StrideOptions :
       desc' = [struct |-> "VectorSum",
                T |-> T,
                queue |-> "queue",
                n |-> n,
                sum_vector |-> sum_vector,
                x_vector |-> x_vector,
                x_stride |-> unwrap_or(x_stride, 1),
                defaulted |-> (IF x_stride = None THEN {"x_stride"} ELSE {})]
  /\ pc' = "built"
  /\ UNCHANGED <<calls, status, result>>

\* sum.rs: assert_dimensions
sum_assert_dimensions(params) ==
  IF ~(params.sum_vector.len > usize_mul(params.n, params.x_stride))
  THEN Panic("x buffer is too short for n and x_stride")
  ELSE Unit

\* sum.rs: the native entry point each `impl ... for VectorSum<'a, T>` calls.
VectorSum_native(T) ==
  CASE T = "f32" -> "CLBlastSsum" []
       T = "f64" -> "CLBlastDsum" []
       T = "Complex32" -> "CLBlastScsum" []
       T = "Complex64" -> "CLBlastDzsum"

\* sum.rs: the arguments of the native call, in the order passed (the same in
\* every impl; a complex alpha goes through to_c()).
VectorSum_args(self) ==
  <<self.n,
    "sum_vector",
    self.sum_vector.offset,
    "x_vector",
    self.x_stride,
    self.x_vector.offset,
    "queue", NullPtr>>

\* sum.rs: run(self) of the impls for VectorSum<'a, T>, T in {f32, f64, Complex32, Complex64}.
VectorSum_run ==
  /\ pc = "built"
  /\ desc.struct = "VectorSum"
  /\ desc.T \in {"f32", "f64", "Complex32", "Complex64"}
  /\ LET checked == sum_assert_dimensions(desc)
     IN  IF checked.tag = "Panic"
         THEN Unwind(checked)
         ELSE \E res \in NativeStatus :
                NativeCall(VectorSum_native(desc.T), VectorSum_args(desc), res)

\* asum.rs: VectorAbsoluteSum::builder()...build().  Fields marked #[builder(default = 1)] that
\* the caller leaves out (None here) take the default.
VectorAbsoluteSum_build ==
  /\ pc = "idle"
  /\ \E T \in ScalarTypes :
     \E n \in 0..MaxN,
        asum_vector \in VectorBuffers,
        x_vector \in VectorBuffers,
        x_stride \in StrideOptions :
       desc' = [struct |-> "VectorAbsoluteSum",
                T |-> T,
                queue |-> "queue",
                n |-> n,
                asum_vector |-> asum_vector,
                x_vector |-> x_vector,
                x_stride |-> unwrap_or(x_stride, 1),
                defaulted |-> (IF x_stride = None THEN {"x_stride"} ELSE {})]
  /\ pc' = "built"
  /\ UNCHANGED <<calls, status, result>>

\* asum.rs: assert_dimensions
asum_assert_dimensions(params) ==
  IF ~(params.asum_vector.len > usize_mul(params.n, params.x_stride))
  THEN Panic("x buffer is too short for n and x_stride")
  ELSE Unit

\* asum.rs: the native entry point each `impl ... for VectorAbsoluteSum<'a, T>` calls.
VectorAbsoluteSum_native(T) ==
  CASE T = "f32" -> "CLBlastSasum" []
       T = "f64" -> "CLBlastDasum" []
       T = "Complex32" -> "CLBlastScasum" []
       T = "Complex64" -> "CLBlastDzasum"

\* asum.rs: the arguments of the native call, in the order passed (the same in
\* every impl; a complex alpha goes through to_c()).
VectorAbsoluteSum_args(self) ==
  <<self.n,
    "asum_vector",
    self.asum_vector.offset,
    "x_vector",
    self.x_stride,
    self.x_vector.offset,
    "queue", NullPtr>>

\* asum.rs: run(self) of the impls for VectorAbsoluteSum<'a, T>, T in {f32, f64, Complex32, Complex64}.
VectorAbsoluteSum_run ==
  /\ pc = "built"
  /\ desc.struct = "VectorAbsoluteSum"
  /\ desc.T \in {"f32", "f64", "Complex32", "Complex64"}
  /\ LET checked == asum_assert_dimensions(desc)
     IN  IF checked.tag = "Panic"
         THEN Unwind(checked)
         ELSE \E res \in NativeStatus :
                NativeCall(VectorAbsoluteSum_native(desc.T), VectorAbsoluteSum_args(desc), res)

\* nrm2.rs: VectorEuclidianNorm::builder()...build().  Fields marked #[builder(default = 1)] that
\* the caller leaves out (None here) take the default.
VectorEuclidianNorm_build ==
  /\ pc = "idle"
  /\ \E T \in ScalarTypes :
     \E n \in 0..MaxN,
        nrm2_vector \in VectorBuffers,
        x_vector \in VectorBuffers,
        x_stride \in StrideOptions :
       desc' = [struct |-> "VectorEuclidianNorm",
                T |-> T,
                queue |-> "queue",
                n |-> n,
                nrm2_vector |-> nrm2_vector,
                x_vector |-> x_vector,
                x_stride |-> unwrap_or(x_stride, 1),
                defaulted |-> (IF x_stride = None THEN {"x_stride"} ELSE {})]
  /\ pc' = "built"
  /\ UNCHANGED <<calls, status, result>>

\* nrm2.rs: assert_dimensions
nrm2_assert_dimensions(params) ==
  IF ~(params.x_vector.len > usize_mul(params.n, params.x_stride))
  THEN Panic("y buffer is too short for n and y_stride")
  ELSE Unit

\* nrm2.rs: the Complex64 impl calling the single-precision entry point.
VectorEuclidianNorm_native_WrongPrecision(T) ==
  CASE T = "f32" -> "CLBlastSnrm2" []
       T = "f64" -> "CLBlastDnrm2" []
       T = "Complex32" -> "CLBlastScnrm2" []
       T = "Complex64" -> "CLBlastScnrm2"

\* nrm2.rs: the native entry point each `impl ... for VectorEuclidianNorm<'a, T>` calls.
VectorEuclidianNorm_native(T) ==
  CASE T = "f32" -> "CLBlastSnrm2" []
       T = "f64" -> "CLBlastDnrm2" []
       T = "Complex32" -> "CLBlastScnrm2" []
       T = "Complex64" -> "CLBlastDznrm2"

\* nrm2.rs: the arguments of the native call, in the order passed (the same in
\* every impl; a complex alpha goes through to_c()).
VectorEuclidianNorm_args(self) ==
  <<self.n,
    "nrm2_vector",
    self.nrm2_vector.offset,
    "x_vector",
    self.x_vector.offset,
    self.x_stride,
    "queue", NullPtr>>

\* nrm2.rs: run(self) of the impls for VectorEuclidianNorm<'a, T>, T in {f32, f64, Complex32, Complex64}.
VectorEuclidianNorm_run ==
  /\ pc = "built"
  /\ desc.struct = "VectorEuclidianNorm"
  /\ desc.T \in {"f32", "f64", "Complex32", "Complex64"}
  /\ LET checked == nrm2_assert_dimensions(desc)
     IN  IF checked.tag = "Panic"
         THEN Unwind(checked)
         ELSE \E res \in NativeStatus :
                NativeCall(VectorEuclidianNorm_native(desc.T), VectorEuclidianNorm_args(desc), res)

\* amax.rs: VectorAbsoluteMaxIndex::builder()...build().  Fields marked #[builder(default = 1)] that
\* the caller leaves out (None here) take the default.
VectorAbsoluteMaxIndex_build ==
  /\ pc = "idle"
  /\ \E T \in ScalarTypes :
     \E n \in 0..MaxN,
        imax_vector \in VectorBuffers,
        x_vector \in VectorBuffers,
        x_stride \in StrideOptions :
       desc' = [struct |-> "VectorAbsoluteMaxIndex",
                T |-> T,
                queue |-> "queue",
                n |-> n,
                imax_vector |-> imax_vector,
                x_vector |-> x_vector,
                x_stride |-> unwrap_or(x_stride, 1),
                defaulted |-> (IF x_stride = None THEN {"x_stride"} ELSE {})]
  /\ pc' = "built"
  /\ UNCHANGED <<calls, status, result>>

\* amax.rs: assert_dimensions
amax_assert_dimensions(params) ==
  IF ~(params.imax_vector.len > usize_mul(params.n, params.x_stride))
  THEN Panic("x buffer is too short for n and x_stride")
  ELSE Unit

\* amax.rs: the native entry point each `impl ... for VectorAbsoluteMaxIndex<'a, T>` calls.
VectorAbsoluteMaxIndex_native(T) ==
  CASE T = "f32" -> "CLBlastiSamax" []
       T = "f64" -> "CLBlastiDamax" []
       T = "Complex32" -> "CLBlastiCamax" []
       T = "Complex64" -> "CLBlastiZamax"

\* amax.rs: the arguments of the native call, in the order passed (the same in
\* every impl; a complex alpha goes through to_c()).
VectorAbsoluteMaxIndex_args(self) ==
  <<self.n,
    "imax_vector",
    self.imax_vector.offset,
    "x_vector",
    self.x_stride,
    self.x_vector.offset,
    "queue", NullPtr>>

\* amax.rs: run(self) of the impls for VectorAbsoluteMaxIndex<'a, T>, T in {f32, f64, Complex32, Complex64}.
VectorAbsoluteMaxIndex_run ==
  /\ pc = "built"
  /\ desc.struct = "VectorAbsoluteMaxIndex"
  /\ desc.T \in {"f32", "f64", "Complex32", "Complex64"}
  /\ LET checked == amax_assert_dimensions(desc)
     IN  IF checked.tag = "Panic"
         THEN Unwind(checked)
         ELSE \E res \in NativeStatus :
                NativeCall(VectorAbsoluteMaxIndex_native(desc.T), VectorAbsoluteMaxIndex_args(desc), res)

\* amin.rs: VectorAbsoluteMinIndex::builder()...build().  Fields marked #[builder(default = 1)] that
\* the caller leaves out (None here) take the default.
VectorAbsoluteMinIndex_build ==
  /\ pc = "idle"
  /\ \E T \in ScalarTypes :
     \E n \in 0..MaxN,
        imin_vector \in VectorBuffers,
        x_vector \in VectorBuffers,
        x_stride \in StrideOptions :
       desc' = [struct |-> "VectorAbsoluteMinIndex",
                T |-> T,
                queue |-> "queue",
                n |-> n,
                imin_vector |-> imin_vector,
                x_vector |-> x_vector,
                x_stride |-> unwrap_or(x_stride, 1),
                defaulted |-> (IF x_stride = None THEN {"x_stride"} ELSE {})]
  /\ pc' = "built"
  /\ UNCHANGED <<calls, status, result>>

\* amin.rs: assert_dimensions
amin_assert_dimensions(params) ==
  IF ~(params.imin_vector.len > usize_mul(params.n, params.x_stride))
  THEN Panic("x buffer is too short for n and x_stride")
  ELSE Unit

\* amin.rs: the native entry point each `impl ... for VectorAbsoluteMinIndex<'a, T>` calls.
VectorAbsoluteMinIndex_native(T) ==
  CASE T = "f32" -> "CLBlastiSamin" []
       T = "f64" -> "CLBlastiDamin" []
       T = "Complex32" -> "CLBlastiCamin" []
       T = "Complex64" -> "CLBlastiZamin"

\* amin.rs: the arguments of the native call, in the order passed (the same in
\* every impl; a complex alpha goes through to_c()).
VectorAbsoluteMinIndex_args(self) ==
  <<self.n,
    "imin_vector",
    self.imin_vector.offset,
    "x_vector",
    self.x_stride,
    self.x_vector.offset,
    "queue", NullPtr>>

\* amin.rs: run(self) of the impls for VectorAbsoluteMinIndex<'a, T>, T in {f32, f64, Complex32, Complex64}.
VectorAbsoluteMinIndex_run ==
  /\ pc = "built"
  /\ desc.struct = "VectorAbsoluteMinIndex"
  /\ desc.T \in {"f32", "f64", "Complex32", "Complex64"}
  /\ LET checked == amin_assert_dimensions(desc)
     IN  IF checked.tag = "Panic"
         THEN Unwind(checked)
         ELSE \E res \in NativeStatus :
                NativeCall(VectorAbsoluteMinIndex_native(desc.T), VectorAbsoluteMinIndex_args(desc), res)

\* max.rs: VectorMaxIndex::builder()...build().  Fields marked #[builder(default = 1)] that
\* the caller leaves out (None here) take the default.
VectorMaxIndex_build ==
  /\ pc = "idle"
  /\ \E T \in ScalarTypes :
     \E n \in 0..MaxN,
        imax_vector \in VectorBuffers,
        x_vector \in VectorBuffers,
        x_stride \in StrideOptions :
       desc' = [struct |-> "VectorMaxIndex",
                T |-> T,
                queue |-> "queue",
                n |-> n,
                imax_vector |-> imax_vector,
                x_vector |-> x_vector,
                x_stride |-> unwrap_or(x_stride, 1),
                defaulted |-> (IF x_stride = None THEN {"x_stride"} ELSE {})]
  /\ pc' = "built"
  /\ UNCHANGED <<calls, status, result>>

\* max.rs: assert_dimensions
max_assert_dimensions(params) ==
  IF ~(params.imax_vector.len > usize_mul(params.n, params.x_stride))
  THEN Panic("x buffer is too short for n and x_stride")
  ELSE Unit

\* max.rs: the native entry point each `impl ... for VectorMaxIndex<'a, T>` calls.
VectorMaxIndex_native(T) ==
  CASE T = "f32" -> "CLBlastiSmax" []
       T = "f64" -> "CLBlastiDmax" []
       T = "Complex32" -> "CLBlastiCmax" []
       T = "Complex64" -> "CLBlastiZmax"

\* max.rs: the arguments of the native call, in the order passed (the same in
\* every impl; a complex alpha goes through to_c()).
VectorMaxIndex_args(self) ==
  <<self.n,
    "imax_vector",
    self.imax_vector.offset,
    "x_vector",
    self.x_stride,
    self.x_vector.offset,
    "queue", NullPtr>>

\* max.rs: run(self) of the impls for VectorMaxIndex<'a, T>, T in {f32, f64, Complex32, Complex64}.
VectorMaxIndex_run ==
  /\ pc = "built"
  /\ desc.struct = "VectorMaxIndex"
  /\ desc.T \in {"f32", "f64", "Complex32", "Complex64"}
  /\ LET checked == max_assert_dimensions(desc)
     IN  IF checked.tag = "Panic"
         THEN Unwind(checked)
         ELSE \E res \in NativeStatus :
                NativeCall(VectorMaxIndex_native(desc.T), VectorMaxIndex_args(desc), res)

\* min.rs: VectorMinIndex::builder()...build().  Fields marked #[builder(default = 1)] that
\* the caller leaves out (None here) take the default.
VectorMinIndex_build ==
  /\ pc = "idle"
  /\ \E T \in ScalarTypes :
     \E n \in 0..MaxN,
        imin_vector \in VectorBuffers,
        x_vector \in VectorBuffers,
        x_stride \in StrideOptions :
       desc' = [struct |-> "VectorMinIndex",
                T |-> T,
                queue |-> "queue",
                n |-> n,
                imin_vector |-> imin_vector,
                x_vector |-> x_vector,
                x_stride |-> unwrap_or(x_stride, 1),
                defaulted |-> (IF x_stride = None THEN {"x_stride"} ELSE {})]
  /\ pc' = "built"
  /\ UNCHANGED <<calls, status, result>>

\* min.rs: assert_dimensions
min_assert_dimensions(params) ==
  IF ~(params.imin_vector.len > usize_mul(params.n, params.x_stride))
  THEN Panic("x buffer is too short for n and x_stride")
  ELSE Unit

\* min.rs: the native entry point each `impl ... for VectorMinIndex<'a, T>` calls.
VectorMinIndex_native(T) ==
  CASE T = "f32" -> "CLBlastiSmin" []
       T = "f64" -> "CLBlastiDmin" []
       T = "Complex32" -> "CLBlastiCmin" []
       T = "Complex64" -> "CLBlastiZmin"

\* min.rs: the arguments of the native call, in the order passed (the same in
\* every impl; a complex alpha goes through to_c()).
VectorMinIndex_args(self) ==
  <<self.n,
    "imin_vector",
    self.imin_vector.offset,
    "x_vector",
    self.x_stride,
    self.x_vector.offset,
    "queue", NullPtr>>

\* min.rs: run(self) of the impls for VectorMinIndex<'a, T>, T in {f32, f64, Complex32, Complex64}.
VectorMinIndex_run ==
  /\ pc = "built"
  /\ desc.struct = "VectorMinIndex"
  /\ desc.T \in {"f32", "f64", "Complex32", "Complex64"}
  /\ LET checked == min_assert_dimensions(desc)
     IN  IF checked.tag = "Panic"
         THEN Unwind(checked)
         ELSE \E res \in NativeStatus :
                NativeCall(VectorMinIndex_native(desc.T), VectorMinIndex_args(desc), res)

\* scal.rs: VectorScale::builder()...build().  Fields marked #[builder(default = 1)] that
\* the caller leaves out (None here) take the default.
VectorScale_build ==
  /\ pc = "idle"
  /\ \E T \in ScalarTypes :
     \E n \in 0..MaxN,
        alpha \in AlphaValues(T),
        x_vector \in VectorBuffers,
        x_stride \in StrideOptions :
       desc' = [struct |-> "VectorScale",
                T |-> T,
                queue |-> "queue",
                n |-> n,
                alpha |-> alpha,
                x_vector |-> x_vector,
                x_stride |-> unwrap_or(x_stride, 1),
                defaulted |-> (IF x_stride = None THEN {"x_stride"} ELSE {})]
  /\ pc' = "built"
  /\ UNCHANGED <<calls, status, result>>

\* scal.rs: assert_dimensions
scal_assert_dimensions(params) ==
  IF ~(params.x_vector.len > usize_mul(params.n, params.x_stride))
  THEN Panic("x buffer is too short for n and x_stride")
  ELSE Unit

\* scal.rs: the native entry point each `impl ... for VectorScale<'a, T>` calls.
VectorScale_native(T) ==
  CASE T = "f32" -> "CLBlastSscal" []
       T = "f64" -> "CLBlastDscal" []
       T = "Complex32" -> "CLBlastCscal" []
       T = "Complex64" -> "CLBlastZscal"

\* scal.rs: the arguments of the native call, in the order passed (the same in
\* every impl; a complex alpha goes through to_c()).
VectorScale_args(self) ==
  <<self.n,
    IF IsComplex(self.T) THEN to_c(self.alpha) ELSE self.alpha,
    "x_vector",
    self.x_vector.offset,
    self.x_stride,
    "queue", NullPtr>>

\* scal.rs: run(self) of the impls for VectorScale<'a, T>, T in {f32, f64, Complex32, Complex64}.
VectorScale_run ==
  /\ pc = "built"
  /\ desc.struct = "VectorScale"
  /\ desc.T \in {"f32", "f64", "Complex32", "Complex64"}
  /\ LET checked == scal_assert_dimensions(desc)
     IN  IF checked.tag = "Panic"
         THEN Unwind(checked)
         ELSE \E res \in NativeStatus :
                NativeCall(VectorScale_native(desc.T), VectorScale_args(desc), res)

\* swap.rs: VectorSwap::builder()...build().  Fields marked #[builder(default = 1)] that
\* the caller leaves out (None here) take the default.
VectorSwap_build ==
  /\ pc = "idle"
  /\ \E T \in ScalarTypes :
     \E n \in 0..MaxN,
        x_vector \in VectorBuffers,
        y_vector \in VectorBuffers,
        x_stride \in StrideOptions,
        y_stride \in StrideOptions :
       desc' = [struct |-> "VectorSwap",
                T |-> T,
                queue |-> "queue",
                n |-> n,
                x_vector |-> x_vector,
                y_vector |-> y_vector,
                x_stride |-> unwrap_or(x_stride, 1),
                y_stride |-> unwrap_or(y_stride, 1),
                defaulted |-> (IF x_stride = None THEN {"x_stride"} ELSE {}) \cup (IF y_stride = None THEN {"y_stride"} ELSE {})]
  /\ pc' = "built"
  /\ UNCHANGED <<calls, status, result>>

\* swap.rs: assert_dimensions
swap_assert_dimensions(params) ==
  IF ~(params.x_vector.len > usize_mul(params.n, params.x_stride))
  THEN Panic("x buffer is too short for n and x_stride")
  ELSE IF ~(params.y_vector.len > usize_mul(params.n, params.y_stride))
  THEN Panic("y buffer is too short for n and y_stride")
  ELSE Unit

\* swap.rs: the native entry point each `impl ... for VectorSwap<'a, T>` calls.
VectorSwap_native(T) ==
  CASE T = "f32" -> "CLBlastSswap" []
       T = "f64" -> "CLBlastDswap" []
       T = "Complex32" -> "CLBlastCswap" []
       T = "Complex64" -> "CLBlastZswap"

\* swap.rs: the arguments of the native call, in the order passed (the same in
\* every impl; a complex alpha goes through to_c()).
VectorSwap_args(self) ==
  <<self.n,
    "x_vector",
    self.x_vector.offset,
    self.x_stride,
    "y_vector",
    self.y_vector.offset,
    self.y_stride,
    "queue", NullPtr>>

\* swap.rs: run(self) of the impls for VectorSwap<'a, T>, T in {f32, f64, Complex32, Complex64}.
VectorSwap_run ==
  /\ pc = "built"
  /\ desc.struct = "VectorSwap"
  /\ desc.T \in {"f32", "f64", "Complex32", "Complex64"}
  /\ LET checked == swap_assert_dimensions(desc)
     IN  IF checked.tag = "Panic"
         THEN Unwind(checked)
         ELSE \E res \in NativeStatus :
                NativeCall(VectorSwap_native(desc.T), VectorSwap_args(desc), res)

\* copy.rs: VectorCopy::builder()...build().  Fields marked #[builder(default = 1)] that
\* the caller leaves out (None here) take the default.
VectorCopy_build ==
  /\ pc = "idle"
  /\ \E T \in ScalarTypes :
     \E n \in 0..MaxN,
        x_vector \in VectorBuffers,
        y_vector \in VectorBuffers,
        x_stride \in StrideOptions,
        y_stride \in StrideOptions :
       desc' = [struct |-> "VectorCopy",
                T |-> T,
                queue |-> "queue",
                n |-> n,
                x_vector |-> x_vector,
                y_vector |-> y_vector,
                x_stride |-> unwrap_or(x_stride, 1),
                y_stride |-> unwrap_or(y_stride, 1),
                defaulted |-> (IF x_stride = None THEN {"x_stride"} ELSE {}) \cup (IF y_stride = None THEN {"y_stride"} ELSE {})]
  /\ pc' = "built"
  /\ UNCHANGED <<calls, status, result>>

\* copy.rs: assert_dimensions
copy_assert_dimensions(params) ==
  IF ~(params.x_vector.len > usize_mul(params.n, params.x_stride))
  THEN Panic("x buffer is too short for n and x_stride")
  ELSE IF ~(params.y_vector.len > usize_mul(params.n, params.y_stride))
  THEN Panic("y buffer is too short for n and y_stride")
  ELSE Unit

\* copy.rs: the native entry point each `impl ... for VectorCopy<'a, T>` calls.
VectorCopy_native(T) ==
  CASE T = "f32" -> "CLBlastScopy" []
       T = "f64" -> "CLBlastDcopy" []
       T = "Complex32" -> "CLBlastCcopy" []
       T = "Complex64" -> "CLBlastZcopy"

\* copy.rs: the arguments of the native call, in the order passed (the same in
\* every impl; a complex alpha goes through to_c()).
VectorCopy_args(self) ==
  <<self.n,
    "x_vector",
    self.x_vector.offset,
    self.x_stride,
    "y_vector",
    self.y_vector.offset,
    self.y_stride,
    "queue", NullPtr>>

\* copy.rs: run(self) of the impls for VectorCopy<'a, T>, T in {f32, f64, Complex32, Complex64}.
VectorCopy_run ==
  /\ pc = "built"
  /\ desc.struct = "VectorCopy"
  /\ desc.T \in {"f32", "f64", "Complex32", "Complex64"}
  /\ LET checked == copy_assert_dimensions(desc)
     IN  IF checked.tag = "Panic"
         THEN Unwind(checked)
         ELSE \E res \in NativeStatus :
                NativeCall(VectorCopy_native(desc.T), VectorCopy_args(desc), res)

\* axpy.rs: VectorAxpy::builder()...build().  Fields marked #[builder(default = 1)] that
\* the caller leaves out (None here) take the default.
VectorAxpy_build ==
  /\ pc = "idle"
  /\ \E T \in ScalarTypes :
     \E n \in 0..MaxN,
        alpha \in AlphaValues(T),
        x_vector \in VectorBuffers,
        y_vector \in VectorBuffers,
        x_stride \in StrideOptions,
        y_stride \in StrideOptions :
       desc' = [struct |-> "VectorAxpy",
                T |-> T,
                queue |-> "queue",
                n |-> n,
                alpha |-> alpha,
                x_vector |-> x_vector,
                y_vector |-> y_vector,
                x_stride |-> unwrap_or(x_stride, 1),
                y_stride |-> unwrap_or(y_stride, 1),
                defaulted |-> (IF x_stride = None THEN {"x_stride"} ELSE {}) \cup (IF y_stride = None THEN {"y_stride"} ELSE {})]
  /\ pc' = "built"
  /\ UNCHANGED <<calls, status, result>>

\* axpy.rs: assert_dimensions
axpy_assert_dimensions(params) ==
  IF ~(params.x_vector.len > usize_mul(params.n, params.x_stride))
  THEN Panic("x buffer is too short for n and x_stride")
  ELSE IF ~(params.y_vector.len > usize_mul(params.n, params.y_stride))
  THEN Panic("y buffer is too short for n and y_stride")
  ELSE Unit

\* axpy.rs: the native entry point each `impl ... for VectorAxpy<'a, T>` calls.
VectorAxpy_native(T) ==
  CASE T = "f32" -> "CLBlastSaxpy" []
       T = "f64" -> "CLBlastDaxpy" []
       T = "Complex32" -> "CLBlastCaxpy" []
       T = "Complex64" -> "CLBlastZaxpy"

\* axpy.rs: the arguments of the native call, in the order passed (the same in
\* every impl; a complex alpha goes through to_c()).
VectorAxpy_args(self) ==
  <<self.n,
    IF IsComplex(self.T) THEN to_c(self.alpha) ELSE self.alpha,
    "x_vector",
    self.x_vector.offset,
    self.x_stride,
    "y_vector",
    self.y_vector.offset,
    self.y_stride,
    "queue", NullPtr>>

\* axpy.rs: run(self) of the impls for VectorAxpy<'a, T>, T in {f32, f64, Complex32, Complex64}.
VectorAxpy_run ==
  /\ pc = "built"
  /\ desc.struct = "VectorAxpy"
  /\ desc.T \in {"f32", "f64", "Complex32", "Complex64"}
  /\ LET checked == axpy_assert_dimensions(desc)
     IN  IF checked.tag = "Panic"
         THEN Unwind(checked)
         ELSE \E res \in NativeStatus :
                NativeCall(VectorAxpy_native(desc.T), VectorAxpy_args(desc), res)

\* dot.rs: VectorDot::builder()...build().  Fields marked #[builder(default = 1)] that
\* the caller leaves out (None here) take the default.
VectorDot_build ==
  /\ pc = "idle"
  /\ \E T \in ScalarTypes :
     \E n \in 0..MaxN,
        dot_buffer \in VectorBuffers,
        x_vector \in VectorBuffers,
        y_vector \in VectorBuffers,
        x_stride \in StrideOptions,
        y_stride \in StrideOptions :
       desc' = [struct |-> "VectorDot",
                T |-> T,
                queue |-> "queue",
                n |-> n,
                dot_buffer |-> dot_buffer,
                x_vector |-> x_vector,
                y_vector |-> y_vector,
                x_stride |-> unwrap_or(x_stride, 1),
                y_stride |-> unwrap_or(y_stride, 1),
                defaulted |-> (IF x_stride = None THEN {"x_stride"} ELSE {}) \cup (IF y_stride = None THEN {"y_stride"} ELSE {})]
  /\ pc' = "built"
  /\ UNCHANGED <<calls, status, result>>

\* dot.rs: assert_dimensions
dot_assert_dimensions(params) ==
  IF ~(params.x_vector.len > usize_mul(params.n, params.x_stride))
  THEN Panic("x buffer is too short for n and x_stride")
  ELSE IF ~(params.y_vector.len > usize_mul(params.n, params.y_stride))
  THEN Panic("y buffer is too short for n and y_stride")
  ELSE Unit

\* dot.rs: the native entry point each `impl ... for VectorDot<'a, T>` calls.
VectorDot_native(T) ==
  CASE T = "f32" -> "CLBlastSdot" []
       T = "f64" -> "CLBlastDdot" []
       T = "Complex32" -> "CLBlastCdotu" []
       T = "Complex64" -> "CLBlastZdotu"

\* dot.rs: the arguments of the native call, in the order passed (the same in
\* every impl; a complex alpha goes through to_c()).
VectorDot_args(self) ==
  <<self.n,
    "dot_buffer",
    self.dot_buffer.offset,
    "x_vector",
    self.x_vector.offset,
    self.x_stride,
    "y_vector",
    self.y_vector.offset,
    self.y_stride,
    "queue", NullPtr>>

\* dot.rs: run(self) of the impls for VectorDot<'a, T>, T in {f32, f64, Complex32, Complex64}.
VectorDot_run ==
  /\ pc = "built"
  /\ desc.struct = "VectorDot"
  /\ desc.T \in {"f32", "f64", "Complex32", "Complex64"}
  /\ LET checked == dot_assert_dimensions(desc)
     IN  IF checked.tag = "Panic"
         THEN Unwind(checked)
         ELSE \E res \in NativeStatus :
                NativeCall(VectorDot_native(desc.T), VectorDot_args(desc), res)

\* dotc.rs: VectorDotConjucate::builder()...build().  Fields marked #[builder(default = 1)] that
\* the caller leaves out (None here) take the default.
VectorDotConjucate_build ==
  /\ pc = "idle"
  /\ \E T \in ScalarTypes :
     \E n \in 0..MaxN,
        dot_buffer \in VectorBuffers,
        x_vector \in VectorBuffers,
        y_vector \in VectorBuffers,
        x_stride \in StrideOptions,
        y_stride \in StrideOptions :
       desc' = [struct |-> "VectorDotConjucate",
                T |-> T,
                queue |-> "queue",
                n |-> n,
                dot_buffer |-> dot_buffer,
                x_vector |-> x_vector,
                y_vector |-> y_vector,
                x_stride |-> unwrap_or(x_stride, 1),
                y_stride |-> unwrap_or(y_stride, 1),
                defaulted |-> (IF x_stride = None THEN {"x_stride"} ELSE {}) \cup (IF y_stride = None THEN {"y_stride"} ELSE {})]
  /\ pc' = "built"
  /\ UNCHANGED <<calls, status, result>>

\* dotc.rs: assert_dimensions
dotc_assert_dimensions(params) ==
  IF ~(params.x_vector.len > usize_mul(params.n, params.x_stride))
  THEN Panic("x buffer is too short for n and x_stride")
  ELSE IF ~(params.y_vector.len > usize_mul(params.n, params.y_stride))
  THEN Panic("y buffer is too short for n and y_stride")
  ELSE Unit

\* dotc.rs: the native entry point each `impl ... for VectorDotConjucate<'a, T>` calls.
VectorDotConjucate_native(T) ==
  CASE T = "Complex32" -> "CLBlastCdotc" []
       T = "Complex64" -> "CLBlastZdotc"

\* dotc.rs: the arguments of the native call, in the order passed (the same in
\* every impl; a complex alpha goes through to_c()).
VectorDotConjucate_args(self) ==
  <<self.n,
    "dot_buffer",
    self.dot_buffer.offset,
    "x_vector",
    self.x_vector.offset,
    self.x_stride,
    "y_vector",
    self.y_vector.offset,
    self.y_stride,
    "queue", NullPtr>>

\* dotc.rs: run(self) of the impls for VectorDotConjucate<'a, T>, T in {Complex32, Complex64}.
VectorDotConjucate_run ==
  /\ pc = "built"
  /\ desc.struct = "VectorDotConjucate"
  /\ desc.T \in {"Complex32", "Complex64"}
  /\ LET checked == dotc_assert_dimensions(desc)
     IN  IF checked.tag = "Panic"
         THEN Unwind(checked)
         ELSE \E res \in NativeStatus :
                NativeCall(VectorDotConjucate_native(desc.T), VectorDotConjucate_args(desc), res)

(***************************************************************************)
(* Level 3: Gemm (gemm.rs) and MatrixMultiplicationBuilder (lib.rs).       *)
(***************************************************************************)

Layouts == {"LayoutRowMajor", "LayoutColMajor"}

\* MatrixLayout::to_c
MatrixLayout_to_c(L) ==
  CASE L = "LayoutColMajor" -> "CLBlastLayout__CLBlastLayoutColMajor" []
       L = "LayoutRowMajor" -> "CLBlastLayout__CLBlastLayoutRowMajor"

\* MatrixTranspose::to_c
MatrixTranspose_to_c(self) ==
  CASE self = "Yes" -> "CLBlastTranspose__CLBlastTransposeYes" []
       self = "No" -> "CLBlastTranspose__CLBlastTransposeNo" []
       self = "Conjugate" -> "CLBlastTranspose__CLBlastTransposeConjugate"

\* MatrixBuffer<T, L>: the views MatrixBuffer::new(columns, rows, buffer)
\* returns (offset 0), over buffers that hold them.
MatrixBuffers(L) ==
  {[rows |-> rows, columns |-> columns, offset |-> 0, layout |-> L] :
     rows \in 1..MaxDim, columns \in 1..MaxDim}

AlphaOptions(T) == {None} \cup {Some(v) : v \in AlphaValues(T)}

BetaOptions(T) == {None} \cup {Some(v) : v \in BetaValues(T)}

TransposeOptions == {None} \cup {Some(t) : t \in {"Yes", "No", "Conjugate"}}

\* The optional fields of a builder the caller left out.
LeftOut(alpha, beta, transpose_a, transpose_b) ==
  (IF alpha = None THEN {"alpha"} ELSE {})
    \cup (IF beta = None THEN {"beta"} ELSE {})
    \cup (IF transpose_a = None THEN {"transpose_a"} ELSE {})
    \cup (IF transpose_b = None THEN {"transpose_b"} ELSE {})

\* gemm.rs: Gemm::builder()...build(), with the #[builder(default=...)] of
\* alpha, beta, transpose_a and transpose_b.
Gemm_build ==
  /\ pc = "idle"
  /\ \E T \in ScalarTypes, L \in Layouts :
       \E a \in MatrixBuffers(L), b \in MatrixBuffers(L), c \in MatrixBuffers(L),
          alpha \in AlphaOptions(T), beta \in BetaOptions(T),
          transpose_a \in TransposeOptions, transpose_b \in TransposeOptions :
         desc' = [struct |-> "Gemm",
                  T |-> T,
                  queue |-> "queue",
                  a |-> a,
                  b |-> b,
                  c |-> c,
                  alpha |-> unwrap_or(alpha, NeutralMul_ONE(T)),
                  beta |-> unwrap_or(beta, NeutralAdd_ZERO(T)),
                  transpose_a |-> unwrap_or(transpose_a, "No"),
                  transpose_b |-> unwrap_or(transpose_b, "No"),
                  defaulted |-> LeftOut(alpha, beta, transpose_a, transpose_b)]
  /\ pc' = "built"
  /\ UNCHANGED <<calls, status, result>>

\* The tuple (k, n, m) assert_dimensions returns.
Dims(k, n, m) == [tag |-> "Dims", k |-> k, n |-> n, m |-> m]

\* gemm.rs: assert_dimensions with the third assert_eq! left out.
gemm_assert_dimensions_NoRowCheck(params) ==
  IF params.a.columns # params.b.rows
  THEN Panic("a.columns /= b.rows (k)")
  ELSE IF params.b.columns # params.c.columns
  THEN Panic("b.columns /= c.columns (n)")
  ELSE Dims(params.a.columns, params.b.columns, params.c.columns)

\* gemm.rs: assert_dimensions comparing the shapes of op(A) and op(B).
gemm_assert_dimensions_Transposed(params) ==
  LET a_rows == IF params.transpose_a = "No" THEN params.a.rows ELSE params.a.columns
      a_columns == IF params.transpose_a = "No" THEN params.a.columns ELSE params.a.rows
      b_rows == IF params.transpose_b = "No" THEN params.b.rows ELSE params.b.columns
      b_columns == IF params.transpose_b = "No" THEN params.b.columns ELSE params.b.rows
  IN  IF a_columns # b_rows
      THEN Panic("a.columns /= b.rows (k)")
      ELSE IF b_columns # params.c.columns
      THEN Panic("b.columns /= c.columns (n)")
      ELSE IF params.c.rows # a_rows
      THEN Panic("c.columns /= a.rows (m)")
      ELSE Dims(a_columns, b_columns, params.c.columns)

\* gemm.rs: assert_dimensions
gemm_assert_dimensions(params) ==
  IF params.a.columns # params.b.rows
  THEN Panic("a.columns /= b.rows (k)")
  ELSE IF params.b.columns # params.c.columns
  THEN Panic("b.columns /= c.columns (n)")
  ELSE IF params.c.rows # params.a.rows
  THEN Panic("c.columns /= a.rows (m)")
  ELSE Dims(params.a.columns, params.b.columns, params.c.columns)

\* gemm.rs: the native entry point of each `impl RunGemm for Gemm<'a, T, L>`.
Gemm_native(T) ==
  CASE T = "f32" -> "CLBlastSgemm" []
       T = "f64" -> "CLBlastDgemm" []
       T = "Complex32" -> "CLBlastCgemm" []
       T = "Complex64" -> "CLBlastZgemm"

\* gemm.rs: the native call with self.alpha passed for beta as well.
Gemm_args_BetaFromAlpha(self, k, n, m) ==
  <<MatrixLayout_to_c(self.a.layout),
    MatrixTranspose_to_c(self.transpose_a),
    MatrixTranspose_to_c(self.transpose_b),
    m,
    n,
    k,
    IF IsComplex(self.T) THEN to_c(self.alpha) ELSE self.alpha,
    "a",
    self.a.offset,
    k,
    "b",
    self.b.offset,
    n,
    IF IsComplex(self.T) THEN to_c(self.alpha) ELSE self.alpha,
    "c",
    self.c.offset,
    n,
    "queue", NullPtr>>

\* gemm.rs: the arguments of the native gemm call, in the order passed; the
\* complex impls pass self.alpha.to_c() and self.beta.to_c().
Gemm_args(self, k, n, m) ==
  <<MatrixLayout_to_c(self.a.layout),
    MatrixTranspose_to_c(self.transpose_a),
    MatrixTranspose_to_c(self.transpose_b),
    m,
    n,
    k,
    IF IsComplex(self.T) THEN to_c(self.alpha) ELSE self.alpha,
    "a",
    self.a.offset,
    k,
    "b",
    self.b.offset,
    n,
    IF IsComplex(self.T) THEN to_c(self.beta) ELSE self.beta,
    "c",
    self.c.offset,
    n,
    "queue", NullPtr>>

\* gemm.rs: run(self) of the four impls of RunGemm.
Gemm_run ==
  /\ pc = "built"
  /\ desc.struct = "Gemm"
  /\ desc.T \in {"f32", "f64", "Complex32", "Complex64"}
  /\ LET checked == gemm_assert_dimensions(desc)
     IN  IF checked.tag = "Panic"
         THEN Unwind(checked)
         ELSE \E res \in NativeStatus :
                NativeCall(Gemm_native(desc.T),
                           Gemm_args(desc, checked.k, checked.n, checked.m), res)

MatrixOptions(L) == {None} \cup {Some(mat) : mat \in MatrixBuffers(L)}

\* lib.rs: queue.multiply().a(..).b(..).c(..)... : a MatrixMultiplicationBuilder
\* with the fields the caller has set; only f32 has a run.  A builder that
\* lacks a required field is taken with its optional fields left out.
MatrixMultiplicationBuilder_set ==
  /\ pc = "idle"
  /\ \E L \in Layouts :
       \E queue \in {None, Some("queue")},
          a \in MatrixOptions(L), b \in MatrixOptions(L), c \in MatrixOptions(L),
          alpha \in AlphaOptions("f32"), beta \in BetaOptions("f32"),
          transpose_a \in TransposeOptions, transpose_b \in TransposeOptions :
         /\ None \in {queue, a, b, c} => LeftOut(alpha, beta, transpose_a, transpose_b)
                                           = {"alpha", "beta", "transpose_a", "transpose_b"}
         /\ desc' = [struct |-> "MatrixMultiplicationBuilder",
                     T |-> "f32",
                     L |-> L,
                     queue |-> queue,
                     a |-> a,
                     b |-> b,
                     c |-> c,
                     alpha |-> alpha,
                     beta |-> beta,
                     transpose_a |-> transpose_a,
                     transpose_b |-> transpose_b,
                     defaulted |-> LeftOut(alpha, beta, transpose_a, transpose_b)]
  /\ pc' = "built"
  /\ UNCHANGED <<calls, status, result>>

\* lib.rs: MatrixMultiplicationBuilder::build (derive_builder): Err when a
\* field without a default is unset, else the struct with the defaults.
MatrixMultiplicationBuilder_build(self) ==
  IF None \in {self.queue, self.a, self.b, self.c}
  THEN Panic("unwrap on Err: UninitializedField")
  ELSE [tag |-> "MatrixMultiplication",
        queue |-> self.queue.value,
        a |-> self.a.value,
        b |-> self.b.value,
        c |-> self.c.value,
        alpha |-> unwrap_or(self.alpha, 1),
        beta |-> unwrap_or(self.beta, 0),
        transpose_a |-> unwrap_or(self.transpose_a, "No"),
        transpose_b |-> unwrap_or(self.transpose_b, "No")]

\* lib.rs: the three assert_eq! of MatrixMultiplicationBuilder::run.
multiply_assert_dimensions(a, b, c) ==
  IF a.columns # b.rows
  THEN Panic("a.columns /= b.rows (k)")
  ELSE IF b.columns # c.columns
  THEN Panic("b.columns /= c.columns (n)")
  ELSE IF c.rows # a.rows
  THEN Panic("c.columns /= a.rows (m)")
  ELSE Dims(a.columns, b.columns, c.columns)

\* lib.rs: the arguments of CLBlastSgemm in MatrixMultiplicationBuilder::run.
MatrixMultiplicationBuilder_args(L, mm, k, n, m) ==
  <<MatrixLayout_to_c(L),
    MatrixTranspose_to_c(mm.transpose_a),
    MatrixTranspose_to_c(mm.transpose_b),
    m,
    n,
    k,
    mm.alpha,
    "a",
    mm.a.offset,
    k,
    "b",
    mm.b.offset,
    n,
    mm.beta,
    "c",
    mm.c.offset,
    n,
    "queue", NullPtr>>

\* lib.rs: MatrixMultiplicationBuilder<'a, f32, L>::run
MatrixMultiplicationBuilder_run ==
  /\ pc = "built"
  /\ desc.struct = "MatrixMultiplicationBuilder"
  /\ LET mm == MatrixMultiplicationBuilder_build(desc)
     IN  IF mm.tag = "Panic"
         THEN Unwind(mm)
         ELSE LET checked == multiply_assert_dimensions(mm.a, mm.b, mm.c)
              IN  IF checked.tag = "Panic"
                  THEN Unwind(checked)
                  ELSE \E res \in NativeStatus :
                         NativeCall("CLBlastSgemm",
                                    MatrixMultiplicationBuilder_args(
                                      desc.L, mm, checked.k, checked.n, checked.m),
                                    res)


(***************************************************************************)
(* MatrixBuffer::new (lib.rs).                                             *)
(***************************************************************************)

\* The buffers handed to MatrixBuffer::new, known by their length.
BufferLens == 0..(MaxDim * MaxDim)

\* lib.rs: MatrixBuffer::new without its assert!.
MatrixBuffer_new_NoAssert(columns, rows, buffer, L) ==
  [tag |-> "MatrixBuffer",
   rows |-> rows,
   columns |-> columns,
   offset |-> 0,
   buffer |-> buffer,
   layout |-> L]

\* lib.rs: MatrixBuffer::new(columns, rows, buffer): the assert!, then the
\* struct literal.
MatrixBuffer_new(columns, rows, buffer, L) ==
  IF ~(usize_mul(rows, columns) <= buffer)
  THEN Panic("assertion failed: rows * columns <= buffer.len()")
  ELSE [tag |-> "MatrixBuffer",
        rows |-> rows,
        columns |-> columns,
        offset |-> 0,
        buffer |-> buffer,
        layout |-> L]

\* A caller constructs a matrix view: MatrixBuffer::<T, L>::new(columns,
\* rows, buffer).  desc records the arguments of the call.
NewMatrixBuffer ==
  /\ pc = "idle"
  /\ \E L \in Layouts, columns \in 0..MaxDim, rows \in 0..MaxDim,
        buffer \in BufferLens :
       /\ desc' = [struct |-> "MatrixBuffer::new",
                   columns |-> columns,
                   rows |-> rows,
                   buffer |-> buffer,
                   L |-> L]
       /\ result' = MatrixBuffer_new(columns, rows, buffer, L)
  /\ pc' = "done"
  /\ UNCHANGED <<calls, status>>

(***************************************************************************)
(* One caller: it builds a descriptor and runs it.                         *)
(***************************************************************************)

Init ==
  /\ pc = "idle"
  /\ desc = NoDesc
  /\ calls = <<>>
  /\ status = <<>>
  /\ result = NoResult

Next ==
  \/ VectorSum_build
  \/ VectorSum_run
  \/ VectorAbsoluteSum_build
  \/ VectorAbsoluteSum_run
  \/ VectorEuclidianNorm_build
  \/ VectorEuclidianNorm_run
  \/ VectorAbsoluteMaxIndex_build
  \/ VectorAbsoluteMaxIndex_run
  \/ VectorAbsoluteMinIndex_build
  \/ VectorAbsoluteMinIndex_run
  \/ VectorMaxIndex_build
  \/ VectorMaxIndex_run
  \/ VectorMinIndex_build
  \/ VectorMinIndex_run
  \/ VectorScale_build
  \/ VectorScale_run
  \/ VectorSwap_build
  \/ VectorSwap_run
  \/ VectorCopy_build
  \/ VectorCopy_run
  \/ VectorAxpy_build
  \/ VectorAxpy_run
  \/ VectorDot_build
  \/ VectorDot_run
  \/ VectorDotConjucate_build
  \/ VectorDotConjucate_run
  \/ Gemm_build
  \/ Gemm_run
  \/ MatrixMultiplicationBuilder_set
  \/ MatrixMultiplicationBuilder_run
  \/ NewMatrixBuffer

Spec == Init /\ [][Next]_vars

(***************************************************************************)
(* The native gemm and the comparison with the reference implementation    *)
(* (tests of gemm.rs).                                                     *)
(***************************************************************************)

\* The values the test data is drawn from (small integers: exact as f32,
\* and as f64 in the sums).
SampleValues == {1, 2}

\* sum += (u[i] * v[i]) as f64, for i = 1..l
RECURSIVE SumOfProducts(_, _, _)
SumOfProducts(u, v, l) ==
  IF l = 0 THEN 0 ELSE SumOfProducts(u, v, l - 1) + u[l] * v[l]

\* chunks_exact(size).map(|r| r.to_vec()).collect()
chunks_exact(out, size) ==
  [y \in 1..(Len(out) \div size) |-> SubSeq(out, (y - 1) * size + 1, y * size)]

\* gemm.rs (mod test): reference_implementation
gemm_reference_implementation(no_samples, no_streams, samples, matrix) ==
  LET out == [p \in 1..(no_samples * no_streams) |->
                LET x == (p - 1) % no_samples
                    y == (p - 1) \div no_samples
                IN  SumOfProducts(
                      [k \in 1..no_streams |-> samples[x + no_samples * (k - 1) + 1]],
                      [k \in 1..no_streams |-> matrix[y * no_streams + (k - 1) + 1]],
                      no_streams)]
  IN  chunks_exact(out, no_samples)

\* format!("{:>5.2}", c): the value to two decimals (here in hundredths).
format_5_2(c) == [hundredths |-> c * 100]

\* gemm.rs (mod test): format_as_rows
format_as_rows(matrix) ==
  [r \in DOMAIN matrix |-> [i \in DOMAIN matrix[r] |-> format_5_2(matrix[r][i])]]

\* MatrixBuffer::new_default(&pro_que, columns, rows, value, layout): a view
\* over a fresh buffer of rows * columns elements, all set to value.
MatrixBuffer_new_default(columns, rows, value, L) ==
  [view |-> [rows |-> rows, columns |-> columns, offset |-> 0, layout |-> L],
   data |-> [p \in 1..(rows * columns) |-> value]]

\* gemm.rs (mod test): read_buffer_to_matrix
read_buffer_to_matrix(view, data) == chunks_exact(data, view.columns)

\* CLBlast<X>gemm of the native library on real scalars: C := alpha * op(A) *
\* op(B) + beta * C, with op(A) m x k, op(B) k x n and C m x n, each matrix
\* stored with its leading dimension in the given layout.  The library
\* tests the dimensions, then each matrix's leading dimension and buffer size.
CLBlastXgemm(args, mem) ==
  LET row == args[1] = "CLBlastLayout__CLBlastLayoutRowMajor"
      a_transposed == args[2] # "CLBlastTranspose__CLBlastTransposeNo"
      b_transposed == args[3] # "CLBlastTranspose__CLBlastTransposeNo"
      m == args[4]
      n == args[5]
      k == args[6]
      alpha == args[7]
      a_offset == args[9]
      a_ld == args[10]
      b_offset == args[12]
      b_ld == args[13]
      beta == args[14]
      c_offset == args[16]
      c_ld == args[17]
      a_rows == IF a_transposed THEN k ELSE m
      a_cols == IF a_transposed THEN m ELSE k
      b_rows == IF b_transposed THEN n ELSE k
      b_cols == IF b_transposed THEN k ELSE n
      minor(rows, cols) == IF row THEN cols ELSE rows
      extent(rows, cols, ld, offset) ==
        IF row THEN ld * (rows - 1) + cols + offset
               ELSE ld * (cols - 1) + rows + offset
      at(data, offset, ld, r, c) ==
        data[offset + (IF row THEN r * ld + c ELSE c * ld + r) + 1]
      A(i, l) == IF a_transposed THEN at(mem.a, a_offset, a_ld, l, i)
                                 ELSE at(mem.a, a_offset, a_ld, i, l)
      B(l, j) == IF b_transposed THEN at(mem.b, b_offset, b_ld, j, l)
                                 ELSE at(mem.b, b_offset, b_ld, l, j)
      c_index(i, j) == c_offset + (IF row THEN i * c_ld + j ELSE j * c_ld + i) + 1
      status_code ==
        IF m = 0 \/ n = 0 \/ k = 0 THEN CLBlastStatusCode.InvalidDimension
        ELSE IF a_ld < minor(a_rows, a_cols) THEN CLBlastStatusCode.InvalidLeadDimA
        ELSE IF Len(mem.a) < extent(a_rows, a_cols, a_ld, a_offset)
        THEN CLBlastStatusCode.InsufficientMemoryA
        ELSE IF b_ld < minor(b_rows, b_cols) THEN CLBlastStatusCode.InvalidLeadDimB
        ELSE IF Len(mem.b) < extent(b_rows, b_cols, b_ld, b_offset)
        THEN CLBlastStatusCode.InsufficientMemoryB
        ELSE IF c_ld < minor(m, n) THEN CLBlastStatusCode.InvalidLeadDimC
        ELSE IF Len(mem.c) < extent(m, n, c_ld, c_offset)
        THEN CLBlastStatusCode.InsufficientMemoryC
        ELSE CLBlastStatusCode.Success
  IN  [status_code |-> status_code,
       c |-> IF status_code # CLBlastStatusCode.Success
             THEN mem.c
             ELSE [p \in DOMAIN mem.c |->
                     IF \E i \in 0..(m - 1), j \in 0..(n - 1) : p = c_index(i, j)
                     THEN LET ij == CHOOSE ij \in (0..(m - 1)) \X (0..(n - 1)) :
                                      p = c_index(ij[1], ij[2])
                          IN  alpha * SumOfProducts(
                                        [l \in 1..k |-> A(ij[1], l - 1)],
                                        [l \in 1..k |-> B(l - 1, ij[2])],
                                        k)
                                + beta * mem.c[p]
                     ELSE mem.c[p]]]

\* Result::unwrap of what run returned.
Result_unwrap(r) == IF r = Ok THEN Unit ELSE Panic("unwrap on Err")

\* gemm.rs (mod test): compare_reference_impl(no_samples, no_streams,
\* samples, configuration), for data that passes its two length asserts: the
\* reference result, the three buffers, Gemm with the defaults, run, unwrap,
\* and the comparison of the formatted rows.
compare_reference_impl ==
  /\ pc = "idle"
  /\ \E no_samples \in 1..MaxDim, no_streams \in 1..MaxDim :
       \E samples \in [1..(no_samples * no_streams) -> SampleValues],
          configuration \in [1..(no_streams * no_streams) -> SampleValues] :
         LET reference_result ==
               gemm_reference_implementation(no_samples, no_streams, samples, configuration)
             k == no_streams
             m == no_streams
             n == no_samples
             a_matrix == MatrixBuffer_new_default(k, m, -1, "LayoutRowMajor")
             b_matrix == MatrixBuffer_new_default(n, k, -1, "LayoutRowMajor")
             c_matrix == MatrixBuffer_new_default(n, m, -1, "LayoutRowMajor")
             task == [struct |-> "Gemm",
                      T |-> "f32",
                      queue |-> "queue",
                      a |-> a_matrix.view,
                      b |-> b_matrix.view,
                      c |-> c_matrix.view,
                      alpha |-> NeutralMul_ONE("f32"),
                      beta |-> NeutralAdd_ZERO("f32"),
                      transpose_a |-> "No",
                      transpose_b |-> "No",
                      defaulted |-> {"alpha", "beta", "transpose_a", "transpose_b"}]
             checked == gemm_assert_dimensions(task)
             args == Gemm_args(task, checked.k, checked.n, checked.m)
             native == CLBlastXgemm(args, [a |-> configuration,
                                           b |-> samples,
                                           c |-> c_matrix.data])
             run == Error_from_c_either(native.status_code)
             gpu_result == read_buffer_to_matrix(c_matrix.view, native.c)
         IN  /\ desc' = [struct |-> "compare_reference_impl",
                         no_samples |-> no_samples,
                         no_streams |-> no_streams,
                         samples |-> samples,
                         configuration |-> configuration,
                         reference_result |-> reference_result]
             /\ IF checked.tag = "Panic"
                THEN /\ result' = checked
                     /\ UNCHANGED <<calls, status>>
                ELSE /\ calls' = Append(calls, [fn |-> Gemm_native("f32"), args |-> args])
                     /\ status' = <<native.status_code>>
                     /\ result' =
                          IF Result_unwrap(run).tag = "Panic"
                          THEN Result_unwrap(run)
                          ELSE IF format_as_rows(reference_result) = format_as_rows(gpu_result)
                          THEN [tag |-> "Passed", gpu_result |-> gpu_result]
                          ELSE [tag |-> "Panic",
                                msg |-> "Expected <left>, but got <right>",
                                gpu_result |-> gpu_result]
  /\ pc' = "done"

SpecCompare == Init /\ [][compare_reference_impl]_vars

(***************************************************************************)
(* clblast-sys (clblast-sys/src/lib.rs): its own copy of the translator,   *)
(* the gemm and symm wrappers and clear_cache.                             *)
(***************************************************************************)

\* clblast-sys: the arms of the match in OclError::from_c, in source order.
sys_OclError_arms ==
  <<
    Arm(CLBlastStatusCode.Success, None),
    Arm(CLBlastStatusCode.OpenCLCompilerNotAvailable, Some("OpenCLCompilerNotAvailable")),
    Arm(CLBlastStatusCode.TempBufferAllocFailure, Some("TempBufferAllocFailure")),
    Arm(CLBlastStatusCode.OpenCLOutOfResources, Some("OpenCLOutOfResources")),
    Arm(CLBlastStatusCode.OpenCLOutOfHostMemory, Some("OpenCLOutOfHostMemory")),
    Arm(CLBlastStatusCode.OpenCLBuildProgramFailure, Some("OpenCLBuildProgramFailure")),
    Arm(CLBlastStatusCode.InvalidValue, Some("InvalidValue")),
    Arm(CLBlastStatusCode.InvalidCommandQueue, Some("InvalidCommandQueue")),
    Arm(CLBlastStatusCode.InvalidMemObject, Some("InvalidMemObject")),
    Arm(CLBlastStatusCode.InvalidBinary, Some("InvalidBinary")),
    Arm(CLBlastStatusCode.InvalidBuildOptions, Some("InvalidBuildOptions")),
    Arm(CLBlastStatusCode.InvalidProgram, Some("InvalidProgram")),
    Arm(CLBlastStatusCode.InvalidProgramExecutable, Some("InvalidProgramExecutable")),
    Arm(CLBlastStatusCode.InvalidKernelName, Some("InvalidKernelName")),
    Arm(CLBlastStatusCode.InvalidKernelDefinition, Some("InvalidKernelDefinition")),
    Arm(CLBlastStatusCode.InvalidKernel, Some("InvalidKernel")),
    Arm(CLBlastStatusCode.InvalidArgIndex, Some("InvalidArgIndex")),
    Arm(CLBlastStatusCode.InvalidArgValue, Some("InvalidArgValue")),
    Arm(CLBlastStatusCode.InvalidArgSize, Some("InvalidArgSize")),
    Arm(CLBlastStatusCode.InvalidKernelArgs, Some("InvalidKernelArgs")),
    Arm(CLBlastStatusCode.InvalidLocalNumDimensions, Some("InvalidLocalNumDimensions")),
    Arm(CLBlastStatusCode.InvalidLocalThreadsTotal, Some("InvalidLocalThreadsTotal")),
    Arm(CLBlastStatusCode.InvalidLocalThreadsDim, Some("InvalidLocalThreadsDim")),
    Arm(CLBlastStatusCode.InvalidGlobalOffset, Some("InvalidGlobalOffset")),
    Arm(CLBlastStatusCode.InvalidEventWaitList, Some("InvalidEventWaitList")),
    Arm(CLBlastStatusCode.InvalidEvent, Some("InvalidEvent")),
    Arm(CLBlastStatusCode.InvalidOperation, Some("InvalidOperation")),
    Arm(CLBlastStatusCode.InvalidBufferSize, Some("InvalidBufferSize")),
    Arm(CLBlastStatusCode.InvalidGlobalWorkSize, Some("InvalidGlobalWorkSize"))
  >>

\* clblast-sys: OclError::from_c without its last arm.
sys_OclError_from_c_MissingArm(status_code) ==
  Match(SubSeq(sys_OclError_arms, 1, Len(sys_OclError_arms) - 1), status_code)

\* clblast-sys: OclError::from_c
sys_OclError_from_c(status_code) == Match(sys_OclError_arms, status_code)

\* clblast-sys: the arms of the match in BlasError::from_c, in source order.
sys_BlasError_arms ==
  <<
    Arm(CLBlastStatusCode.NotImplemented, Some("NotImplemented")),
    Arm(CLBlastStatusCode.InvalidMatrixA, Some("InvalidMatrixA")),
    Arm(CLBlastStatusCode.InvalidMatrixB, Some("InvalidMatrixB")),
    Arm(CLBlastStatusCode.InvalidMatrixC, Some("InvalidMatrixC")),
    Arm(CLBlastStatusCode.InvalidVectorX, Some("InvalidVectorX")),
    Arm(CLBlastStatusCode.InvalidVectorY, Some("InvalidVectorY")),
    Arm(CLBlastStatusCode.InvalidDimension, Some("InvalidDimension")),
    Arm(CLBlastStatusCode.InvalidLeadDimA, Some("InvalidLeadDimA")),
    Arm(CLBlastStatusCode.InvalidLeadDimB, Some("InvalidLeadDimB")),
    Arm(CLBlastStatusCode.InvalidLeadDimC, Some("InvalidLeadDimC")),
    Arm(CLBlastStatusCode.InvalidIncrementX, Some("InvalidIncrementX")),
    Arm(CLBlastStatusCode.InvalidIncrementY, Some("InvalidIncrementY")),
    Arm(CLBlastStatusCode.InsufficientMemoryA, Some("InsufficientMemoryA")),
    Arm(CLBlastStatusCode.InsufficientMemoryB, Some("InsufficientMemoryB")),
    Arm(CLBlastStatusCode.InsufficientMemoryC, Some("InsufficientMemoryC")),
    Arm(CLBlastStatusCode.InsufficientMemoryX, Some("InsufficientMemoryX")),
    Arm(CLBlastStatusCode.InsufficientMemoryY, Some("InsufficientMemoryY"))
  >>

\* clblast-sys: BlasError::from_c
sys_BlasError_from_c(status_code) == Match(sys_BlasError_arms, status_code)

\* clblast-sys: the arms of the match in BlastError::from_c, in source order.
sys_BlastError_arms ==
  <<
    Arm(CLBlastStatusCode.InsufficientMemoryTemp, Some("InsufficientMemoryTemp")),
    Arm(CLBlastStatusCode.InvalidBatchCount, Some("InvalidBatchCount")),
    Arm(CLBlastStatusCode.InvalidOverrideKernel, Some("InvalidOverrideKernel")),
    Arm(CLBlastStatusCode.MissingOverrideParameter, Some("MissingOverrideParameter")),
    Arm(CLBlastStatusCode.InvalidLocalMemUsage, Some("InvalidLocalMemUsage")),
    Arm(CLBlastStatusCode.NoHalfPrecision, Some("NoHalfPrecision")),
    Arm(CLBlastStatusCode.NoDoublePrecision, Some("NoDoublePrecision")),
    Arm(CLBlastStatusCode.InvalidVectorScalar, Some("InvalidVectorScalar")),
    Arm(CLBlastStatusCode.InsufficientMemoryScalar, Some("InsufficientMemoryScalar")),
    Arm(CLBlastStatusCode.DatabaseError, Some("DatabaseError")),
    Arm(CLBlastStatusCode.UnknownError, Some("UnknownError")),
    Arm(CLBlastStatusCode.UnexpectedError, Some("UnexpectedError"))
  >>

\* clblast-sys: BlastError::from_c
sys_BlastError_from_c(status_code) == Match(sys_BlastError_arms, status_code)

\* clblast-sys: Error::from_c
sys_Error_from_c(status_code) ==
  IF status_code = CLBlastStatusCode.Success
  THEN None
  ELSE Option_or_else(
         Option_or_else(
           Option_or_else(
             map_Ocl(sys_OclError_from_c(status_code)),
             map_Blas(sys_BlasError_from_c(status_code))),
           map_Blast(sys_BlastError_from_c(status_code))),
         Some(Error_Unknown(status_code)))

\* clblast-sys: Error::from_c_either
sys_Error_from_c_either(status_code) ==
  LET r == sys_Error_from_c(status_code)
  IN  IF r.tag = "Some" THEN Err(r.value) ELSE Ok

\* clblast-sys: MatrixLayout::to_c
sys_MatrixLayout_to_c(self) ==
  CASE self = "ColMajor" -> "CLBlastLayout__CLBlastLayoutColMajor" []
       self = "RowMajor" -> "CLBlastLayout__CLBlastLayoutRowMajor"

\* clblast-sys: MatrixTranspose::to_c
sys_MatrixTranspose_to_c(self) ==
  CASE self = "Yes" -> "CLBlastTranspose__CLBlastTransposeYes" []
       self = "No" -> "CLBlastTranspose__CLBlastTransposeNo" []
       self = "Conjugate" -> "CLBlastTranspose__CLBlastTransposeConjugate"

\* clblast-sys: MultiplicationSide::to_c
MultiplicationSide_to_c(self) ==
  CASE self = "Left" -> "CLBlastSide__CLBlastSideLeft" []
       self = "Right" -> "CLBlastSide__CLBlastSideRight"

\* clblast-sys: TriangleLayout::to_c
TriangleLayout_to_c(self) ==
  CASE self = "Upper" -> "CLBlastTriangle__CLBlastTriangleUpper" []
       self = "Lower" -> "CLBlastTriangle__CLBlastTriangleLower"

\* The event argument of a wrapper: None, or the caller's event.
EventOptions == {None, Some("event")}

\* ocl Event::alloc_new: the slot of the caller's event that receives the
\* new event.
alloc_new(event) == "event.alloc_new()"

\* clblast-sys: match event { None => &mut ptr::null_mut(), Some(mut event)
\* => &mut event.alloc_new().cast() }: what the event out-parameter of the
\* native call refers to.
event_ptr(event) ==
  IF event = None THEN NullPtr ELSE alloc_new(event.value)

\* The arguments of a gemm wrapper, as the caller passes them.
GemmWrapperInputs(T) ==
  [layout : {"ColMajor", "RowMajor"},
   a_transpose : {"Yes", "No", "Conjugate"},
   b_transpose : {"Yes", "No", "Conjugate"},
   m : 1..MaxDim,
   n : 1..MaxDim,
   k : 1..MaxDim,
   alpha : AlphaValues(T),
   a_offset : {0, MaxOffset},
   a_ld : {MaxDim},
   b_offset : {0, MaxOffset},
   b_ld : {MaxDim},
   beta : BetaValues(T),
   c_offset : {0, MaxOffset},
   c_ld : {MaxDim},
   event : EventOptions]

\* clblast-sys: the arguments of CLBlastSgemm / CLBlastDgemm in blast_sgemm /
\* blast_dgemm, in the order passed.
blast_gemm_args(in) ==
  <<sys_MatrixLayout_to_c(in.layout),
    sys_MatrixTranspose_to_c(in.a_transpose),
    sys_MatrixTranspose_to_c(in.b_transpose),
    in.m,
    in.n,
    in.k,
    in.alpha,
    "a_buffer",
    in.a_offset,
    in.a_ld,
    "b_buffer",
    in.b_offset,
    in.b_ld,
    in.beta,
    "c_buffer",
    in.c_offset,
    in.c_ld,
    "queue",
    event_ptr(in.event)>>

\* A wrapper of clblast-sys: the native entry point is called once and the
\* wrapper returns the translation of its status.
sys_NativeCall(wrapper, in, fn, args, res) ==
  /\ desc' = [struct |-> wrapper, in |-> in]
  /\ calls' = Append(calls, [fn |-> fn, args |-> args])
  /\ status' = <<res>>
  /\ result' = sys_Error_from_c_either(res)
  /\ pc' = "done"

\* clblast-sys: blast_sgemm that waits for the event it was given.
blast_sgemm_WaitsForEvent ==
  /\ pc = "idle"
  /\ \E in \in GemmWrapperInputs("f32"), res \in NativeStatus :
       /\ desc' = [struct |-> "blast_sgemm", in |-> in]
       /\ calls' = IF in.event = None
                   THEN <<[fn |-> "CLBlastSgemm", args |-> blast_gemm_args(in)]>>
                   ELSE <<[fn |-> "CLBlastSgemm", args |-> blast_gemm_args(in)],
                          [fn |-> "clWaitForEvents", args |-> <<1, event_ptr(in.event)>>]>>
       /\ status' = <<res>>
       /\ result' = sys_Error_from_c_either(res)
       /\ pc' = "done"

\* clblast-sys: blast_sgemm
blast_sgemm ==
  /\ pc = "idle"
  /\ \E in \in GemmWrapperInputs("f32"), res \in NativeStatus :
       sys_NativeCall("blast_sgemm", in, "CLBlastSgemm", blast_gemm_args(in), res)

\* clblast-sys: blast_dgemm
blast_dgemm ==
  /\ pc = "idle"
  /\ \E in \in GemmWrapperInputs("f64"), res \in NativeStatus :
       sys_NativeCall("blast_dgemm", in, "CLBlastDgemm", blast_gemm_args(in), res)

\* The arguments of a symm wrapper, as the caller passes them.
SymmWrapperInputs(T) ==
  [layout : {"ColMajor", "RowMajor"},
   side : {"Left", "Right"},
   triangle : {"Upper", "Lower"},
   m : 1..MaxDim,
   n : 1..MaxDim,
   alpha : AlphaValues(T),
   a_offset : {0, MaxOffset},
   a_ld : {MaxDim},
   b_offset : {0, MaxOffset},
   b_ld : {MaxDim},
   beta : BetaValues(T),
   c_offset : {0, MaxOffset},
   c_ld : {MaxDim},
   event : EventOptions]

\* clblast-sys: the arguments of CLBlastSsymm / CLBlastDsymm in blast_ssymm /
\* blast_dsymm, in the order passed.
blast_symm_args(in) ==
  <<sys_MatrixLayout_to_c(in.layout),
    MultiplicationSide_to_c(in.side),
    TriangleLayout_to_c(in.triangle),
    in.m,
    in.n,
    in.alpha,
    "a_buffer",
    in.a_offset,
    in.a_ld,
    "b_buffer",
    in.b_offset,
    in.b_ld,
    in.beta,
    "c_buffer",
    in.c_offset,
    in.c_ld,
    "queue",
    event_ptr(in.event)>>

\* clblast-sys: blast_ssymm
blast_ssymm ==
  /\ pc = "idle"
  /\ \E in \in SymmWrapperInputs("f32"), res \in NativeStatus :
       sys_NativeCall("blast_ssymm", in, "CLBlastSsymm", blast_symm_args(in), res)

\* clblast-sys: blast_dsymm
blast_dsymm ==
  /\ pc = "idle"
  /\ \E in \in SymmWrapperInputs("f64"), res \in NativeStatus :
       sys_NativeCall("blast_dsymm", in, "CLBlastDsymm", blast_symm_args(in), res)

\* clblast-sys: clear_cache() -> CLBlastStatusCode: the status code of
\* CLBlastClearCache, returned as it is.
clear_cache ==
  /\ pc = "idle"
  /\ \E res \in NativeStatus :
       /\ desc' = [struct |-> "clear_cache"]
       /\ calls' = Append(calls, [fn |-> "CLBlastClearCache", args |-> <<>>])
       /\ status' = <<res>>
       /\ result' = [tag |-> "CLBlastStatusCode", status_code |-> res]
       /\ pc' = "done"

NextSys ==
  \/ blast_sgemm
  \/ blast_dgemm
  \/ blast_ssymm
  \/ blast_dsymm
  \/ clear_cache

\* Both crates: every descriptor of clblast and every function of clblast-sys.
SpecBinding == Init /\ [][Next \/ NextSys]_vars

(***************************************************************************)
(* reference_implementation and its tests (mod test of lib.rs and of       *)
(* gemm.rs).                                                               *)
(***************************************************************************)

\* lib.rs (mod test): the body of `for x in 0..no_samples { for y in
\* 0..no_streams { .. } }` from its i-th pass on (x = i / no_streams,
\* y = i % no_streams): out[x + y * no_samples] = sum as f32.
RECURSIVE reference_loop(_, _, _, _, _, _)
reference_loop(i, out, no_samples, no_streams, samples, matrix) ==
  IF i = no_samples * no_streams
  THEN out
  ELSE LET x == i \div no_streams
           y == i % no_streams
           sum == SumOfProducts(
                    [k \in 1..no_streams |-> samples[x + no_samples * (k - 1) + 1]],
                    [k \in 1..no_streams |-> matrix[y * no_streams + (k - 1) + 1]],
                    no_streams)
       IN  reference_loop(i + 1, [out EXCEPT ![x + y * no_samples + 1] = sum],
                          no_samples, no_streams, samples, matrix)

\* lib.rs (mod test): reference_implementation reading the matrix by columns.
reference_implementation_MatrixByColumns(no_samples, no_streams, samples, matrix) ==
  [p \in 1..(no_samples * no_streams) |->
     LET x == (p - 1) % no_samples
         y == (p - 1) \div no_samples
     IN  SumOfProducts(
           [k \in 1..no_streams |-> samples[x + no_samples * (k - 1) + 1]],
           [k \in 1..no_streams |-> matrix[(k - 1) * no_streams + y + 1]],
           no_streams)]

\* lib.rs (mod test): reference_implementation
reference_implementation(no_samples, no_streams, samples, matrix) ==
  reference_loop(0, [p \in 1..(no_samples * no_streams) |-> 0],
                 no_samples, no_streams, samples, matrix)

\* The samples and the matrix of test_reference (lib.rs) and
\* test_reference_3_5 (gemm.rs).
fixture_samples ==
  <<1, 2, 3,
    4, 5, 6,
    7, 8, 9,
    7, 8, 9,
    7, 8, 9>>

fixture_matrix ==
  <<0, 2, 1, 0, 2,
    0, 1, 1, 2, 3,
    1, 2, 3, 4, 5,
    0, 0, 0, 0, 0,
    0, 1, 3, 9, 2>>

\* assert_eq!(res, expected_result) of a test.
assert_eq(res, expected_result) ==
  IF res = expected_result
  THEN [tag |-> "Passed", res |-> res]
  ELSE Panic("assertion failed: (left == right)")

\* A test has run: its inputs are kept in desc, its outcome in result.
TestDone(name, no_samples, no_streams, samples, matrix, outcome) ==
  /\ desc' = [struct |-> name,
              no_samples |-> no_samples,
              no_streams |-> no_streams,
              samples |-> samples,
              matrix |-> matrix]
  /\ result' = outcome
  /\ pc' = "done"
  /\ UNCHANGED <<calls, status>>

\* lib.rs: test_reference
test_reference ==
  /\ pc = "idle"
  /\ TestDone("test_reference", 3, 5, fixture_samples, fixture_matrix,
           assert_eq(reference_implementation(3, 5, fixture_samples, fixture_matrix),
                     <<29, 34, 39, 46, 53, 60, 93, 108, 123, 0, 0, 0, 102, 117, 132>>))

\* gemm.rs: test_reference_1_3
test_reference_1_3 ==
  /\ pc = "idle"
  /\ TestDone("test_reference_1_3", 3, 1, <<1, 2, 3>>, <<1>>,
           assert_eq(gemm_reference_implementation(3, 1, <<1, 2, 3>>, <<1>>),
                     <<(<<1, 2, 3>>)>>))

\* gemm.rs: test_reference_3_5
test_reference_3_5 ==
  /\ pc = "idle"
  /\ TestDone("test_reference_3_5", 3, 5, fixture_samples, fixture_matrix,
           assert_eq(gemm_reference_implementation(3, 5, fixture_samples, fixture_matrix),
                     <<(<<29, 34, 39>>),
                       (<<46, 53, 60>>),
                       (<<93, 108, 123>>),
                       (<<0, 0, 0>>),
                       (<<102, 117, 132>>)>>))

\* A call of reference_implementation on inputs of the sizes it indexes:
\* no_streams * no_samples samples and no_streams * no_streams matrix
\* entries, with no_samples + no_streams at most MaxDim + 2.  Both copies are applied: res is the Vec<f32> of lib.rs, rows the
\* Vec<Vec<f32>> of gemm.rs.
reference_implementation_call ==
  /\ pc = "idle"
  /\ \E no_samples \in 1..MaxDim, no_streams \in 1..MaxDim :
    /\ no_samples + no_streams <= MaxDim + 2
    /\ \E samples \in [1..(no_samples * no_streams) -> SampleValues],
       matrix \in [1..(no_streams * no_streams) -> SampleValues] :
      TestDone("reference_implementation", no_samples, no_streams, samples, matrix,
               [tag |-> "Returned",
                res |-> reference_implementation(no_samples, no_streams, samples, matrix),
                rows |-> gemm_reference_implementation(
                           no_samples, no_streams, samples, matrix)])

NextReference ==
  \/ test_reference
  \/ test_reference_1_3
  \/ test_reference_3_5
  \/ reference_implementation_call

SpecReference == Init /\ [][NextReference]_vars

(***************************************************************************)
(* The pre-call checks on operands near the width of usize.                *)
(***************************************************************************)

\* overflow-checks of the build: on in a debug build, off in a release build.
BuildProfiles == {"debug", "release"}

\* Sizes up to the largest usize.
WideValues == {1, 2, usize_modulus \div 2, usize_modulus - 1}

\* Buffers of the lengths above.
WideBuffers == [len : {1, 2, usize_modulus - 1}, offset : {0}]

\* a * b does not fit usize.
Overflows(a, b) == a * b >= usize_modulus

\* The panic of a * b in a build with overflow checks.
OverflowPanics(profile, a, b) == profile = "debug" /\ Overflows(a, b)

\* scal.rs: VectorScale::builder()...build() with n and x_stride of any size.
VectorScale_build_wide ==
  /\ pc = "idle"
  /\ \E T \in ScalarTypes, profile \in BuildProfiles :
     \E n \in WideValues,
        alpha \in AlphaValues(T),
        x_vector \in WideBuffers,
        x_stride \in WideValues :
       desc' = [struct |-> "VectorScale",
                T |-> T,
                queue |-> "queue",
                n |-> n,
                alpha |-> alpha,
                x_vector |-> x_vector,
                x_stride |-> x_stride,
                defaulted |-> {},
                profile |-> profile]
  /\ pc' = "built"
  /\ UNCHANGED <<calls, status, result>>

\* scal.rs: run(self) under either build profile: with overflow checks the
\* product in assert_dimensions panics when it does not fit.
VectorScale_run_wide ==
  /\ pc = "built"
  /\ desc.struct = "VectorScale"
  /\ IF OverflowPanics(desc.profile, desc.n, desc.x_stride)
     THEN Unwind(Panic("attempt to multiply with overflow"))
     ELSE VectorScale_run

\* axpy.rs: VectorAxpy::builder()...build() with n and strides of any size.
VectorAxpy_build_wide ==
  /\ pc = "idle"
  /\ \E T \in ScalarTypes, profile \in BuildProfiles :
     \E n \in WideValues,
        alpha \in AlphaValues(T),
        x_vector \in WideBuffers,
        y_vector \in WideBuffers,
        x_stride \in WideValues,
        y_stride \in WideValues :
       desc' = [struct |-> "VectorAxpy",
                T |-> T,
                queue |-> "queue",
                n |-> n,
                alpha |-> alpha,
                x_vector |-> x_vector,
                y_vector |-> y_vector,
                x_stride |-> x_stride,
                y_stride |-> y_stride,
                defaulted |-> {},
                profile |-> profile]
  /\ pc' = "built"
  /\ UNCHANGED <<calls, status, result>>

\* axpy.rs: run(self) under either build profile: the product of the first
\* assert! is computed first, that of the second only when the first assert!
\* holds.
VectorAxpy_run_wide ==
  /\ pc = "built"
  /\ desc.struct = "VectorAxpy"
  /\ IF OverflowPanics(desc.profile, desc.n, desc.x_stride)
     THEN Unwind(Panic("attempt to multiply with overflow"))
     ELSE IF /\ desc.x_vector.len > usize_mul(desc.n, desc.x_stride)
             /\ OverflowPanics(desc.profile, desc.n, desc.y_stride)
     THEN Unwind(Panic("attempt to multiply with overflow"))
     ELSE VectorAxpy_run

\* lib.rs: MatrixBuffer::new(columns, rows, buffer) with rows and columns of
\* any size, under either build profile.
NewMatrixBuffer_wide ==
  /\ pc = "idle"
  /\ \E L \in Layouts, profile \in BuildProfiles,
        columns \in WideValues, rows \in WideValues, buffer \in WideValues :
       /\ desc' = [struct |-> "MatrixBuffer::new",
                   columns |-> columns,
                   rows |-> rows,
                   buffer |-> buffer,
                   L |-> L,
                   profile |-> profile]
       /\ result' = IF OverflowPanics(profile, rows, columns)
                    THEN Panic("attempt to multiply with overflow")
                    ELSE MatrixBuffer_new(columns, rows, buffer, L)
  /\ pc' = "done"
  /\ UNCHANGED <<calls, status>>

NextOverflow ==
  \/ VectorScale_build_wide
  \/ VectorScale_run_wide
  \/ VectorAxpy_build_wide
  \/ VectorAxpy_run_wide
  \/ NewMatrixBuffer_wide

SpecOverflow == Init /\ [][NextOverflow]_vars

(***************************************************************************)
(* One caller that runs one descriptor after the other on the same queue.  *)
(***************************************************************************)

\* The number of run invocations the caller makes at most.
MaxRuns == 2

\* The two vectors the caller works on: whole buffers of MaxLen elements.
CallerBuffers == [len : {MaxLen}, offset : {0}]

\* scal.rs: VectorScale::builder().queue(..).n(..).alpha(..).x_vector(..)
\* .build() on the caller's x vector, x_stride left out.
VectorScale_build_next ==
  /\ pc = "idle"
  /\ \E T \in ScalarTypes :
     \E n \in 0..MaxN,
        alpha \in AlphaValues(T),
        x_vector \in CallerBuffers :
       desc' = [struct |-> "VectorScale",
                T |-> T,
                queue |-> "queue",
                n |-> n,
                alpha |-> alpha,
                x_vector |-> x_vector,
                x_stride |-> unwrap_or(None, 1),
                defaulted |-> {"x_stride"}]
  /\ pc' = "built"
  /\ UNCHANGED <<calls, status, result>>

\* axpy.rs: VectorAxpy::builder()...build() on the caller's x and y vectors,
\* both strides left out.
VectorAxpy_build_next ==
  /\ pc = "idle"
  /\ \E T \in ScalarTypes :
     \E n \in 0..MaxN,
        alpha \in AlphaValues(T),
        x_vector \in CallerBuffers,
        y_vector \in CallerBuffers :
       desc' = [struct |-> "VectorAxpy",
                T |-> T,
                queue |-> "queue",
                n |-> n,
                alpha |-> alpha,
                x_vector |-> x_vector,
                y_vector |-> y_vector,
                x_stride |-> unwrap_or(None, 1),
                y_stride |-> unwrap_or(None, 1),
                defaulted |-> {"x_stride", "y_stride"}]
  /\ pc' = "built"
  /\ UNCHANGED <<calls, status, result>>

\* run has returned Ok or Err (the descriptor was consumed); the caller goes
\* on to build its next descriptor.  The queue keeps what was enqueued;
\* status is that of the run in progress.
next_invocation ==
  /\ pc = "done"
  /\ result.tag # "Panic"
  /\ Len(calls) < MaxRuns
  /\ pc' = "idle"
  /\ desc' = NoDesc
  /\ result' = NoResult
  /\ status' = <<>>
  /\ UNCHANGED calls

NextSequence ==
  \/ VectorScale_build_next
  \/ VectorScale_run
  \/ VectorAxpy_build_next
  \/ VectorAxpy_run
  \/ next_invocation

SpecSequence == Init /\ [][NextSequence]_vars

(***************************************************************************)
(* Two threads of a caller that does not serialise them: one runs a        *)
(* descriptor, the other calls clear_cache; the device works off the       *)
(* queue.  Here pc and result hold one entry per thread, a native call is  *)
(* entered in one step and returns in another, and status collects the     *)
(* statuses in the order the calls return.                                 *)
(***************************************************************************)

InitThreads ==
  /\ pc = [runner |-> "idle", clearer |-> "idle", device |-> "idle"]
  /\ desc = NoDesc
  /\ calls = <<>>
  /\ status = <<>>
  /\ result = [runner |-> NoResult, clearer |-> NoResult]

\* scal.rs: the runner builds a VectorScale on its x vector.
runner_build ==
  /\ pc.runner = "idle"
  /\ \E T \in ScalarTypes :
     \E n \in 0..MaxN,
        alpha \in AlphaValues(T),
        x_vector \in CallerBuffers :
       desc' = [struct |-> "VectorScale",
                T |-> T,
                queue |-> "queue",
                n |-> n,
                alpha |-> alpha,
                x_vector |-> x_vector,
                x_stride |-> unwrap_or(None, 1),
                defaulted |-> {"x_stride"}]
  /\ pc' = [pc EXCEPT !.runner = "built"]
  /\ UNCHANGED <<calls, status, result>>

\* scal.rs: run(self) up to the native call: assert_dimensions, then the
\* call is entered.  No lock is taken and no state of the other thread or of
\* the device is looked at.
runner_run_call ==
  /\ pc.runner = "built"
  /\ LET checked == scal_assert_dimensions(desc)
     IN  IF checked.tag = "Panic"
         THEN /\ pc' = [pc EXCEPT !.runner = "done"]
              /\ result' = [result EXCEPT !.runner = checked]
              /\ UNCHANGED calls
         ELSE /\ pc' = [pc EXCEPT !.runner = "in_native"]
              /\ calls' = Append(calls, [fn |-> VectorScale_native(desc.T),
                                         args |-> VectorScale_args(desc)])
              /\ UNCHANGED result
  /\ UNCHANGED <<desc, status>>

\* scal.rs: the native call returns res and run returns its translation.  An
\* operation enqueued with success is in flight on the queue from here on.
runner_run_return ==
  /\ pc.runner = "in_native"
  /\ \E res \in NativeStatus :
       /\ status' = Append(status, res)
       /\ result' = [result EXCEPT !.runner = Error_from_c_either(res)]
       /\ pc' = [pc EXCEPT !.runner = "done",
                           !.device = IF res = CLBlastStatusCode.Success
                                      THEN "busy"
                                      ELSE @]
  /\ UNCHANGED <<desc, calls>>

\* The device finishes the operation in flight.
device_complete ==
  /\ pc.device = "busy"
  /\ pc' = [pc EXCEPT !.device = "idle"]
  /\ UNCHANGED <<desc, calls, status, result>>

\* clblast-sys: clear_cache behind a lock that waits for the queue to drain
\* and for a run in progress.
clear_cache_call_Locked ==
  /\ pc.clearer = "idle"
  /\ pc.device = "idle"
  /\ pc.runner # "in_native"
  /\ pc' = [pc EXCEPT !.clearer = "in_native"]
  /\ calls' = Append(calls, [fn |-> "CLBlastClearCache", args |-> <<>>])
  /\ UNCHANGED <<desc, status, result>>

\* clblast-sys: clear_cache() enters CLBlastClearCache: the body is the
\* native call alone.
clear_cache_call ==
  /\ pc.clearer = "idle"
  /\ pc' = [pc EXCEPT !.clearer = "in_native"]
  /\ calls' = Append(calls, [fn |-> "CLBlastClearCache", args |-> <<>>])
  /\ UNCHANGED <<desc, status, result>>

\* clblast-sys: CLBlastClearCache returns and clear_cache returns its status
\* code.
clear_cache_return ==
  /\ pc.clearer = "in_native"
  /\ \E res \in NativeStatus :
       /\ status' = Append(status, res)
       /\ result' = [result EXCEPT
                       !.clearer = [tag |-> "CLBlastStatusCode", status_code |-> res]]
  /\ pc' = [pc EXCEPT !.clearer = "done"]
  /\ UNCHANGED <<desc, calls>>

NextThreads ==
  \/ runner_build
  \/ runner_run_call
  \/ runner_run_return
  \/ device_complete
  \/ clear_cache_call
  \/ clear_cache_return

SpecThreads == InitThreads /\ [][NextThreads]_vars

(***************************************************************************)
(* The CLBlast C API the descriptors dispatch to.                          *)
(***************************************************************************)

\* The entry points of the CLBlast C API used here: the routine family each
\* one computes and the precision it computes in.
CLBlastAPI ==
  {[fn |-> "CLBlastSsum", family |-> "sum", precision |-> "single real"],
   [fn |-> "CLBlastDsum", family |-> "sum", precision |-> "double real"],
   [fn |-> "CLBlastScsum", family |-> "sum", precision |-> "single complex"],
   [fn |-> "CLBlastDzsum", family |-> "sum", precision |-> "double complex"],
   [fn |-> "CLBlastSasum", family |-> "asum", precision |-> "single real"],
   [fn |-> "CLBlastDasum", family |-> "asum", precision |-> "double real"],
   [fn |-> "CLBlastScasum", family |-> "asum", precision |-> "single complex"],
   [fn |-> "CLBlastDzasum", family |-> "asum", precision |-> "double complex"],
   [fn |-> "CLBlastSnrm2", family |-> "nrm2", precision |-> "single real"],
   [fn |-> "CLBlastDnrm2", family |-> "nrm2", precision |-> "double real"],
   [fn |-> "CLBlastScnrm2", family |-> "nrm2", precision |-> "single complex"],
   [fn |-> "CLBlastDznrm2", family |-> "nrm2", precision |-> "double complex"],
   [fn |-> "CLBlastiSamax", family |-> "amax", precision |-> "single real"],
   [fn |-> "CLBlastiDamax", family |-> "amax", precision |-> "double real"],
   [fn |-> "CLBlastiCamax", family |-> "amax", precision |-> "single complex"],
   [fn |-> "CLBlastiZamax", family |-> "amax", precision |-> "double complex"],
   [fn |-> "CLBlastiSamin", family |-> "amin", precision |-> "single real"],
   [fn |-> "CLBlastiDamin", family |-> "amin", precision |-> "double real"],
   [fn |-> "CLBlastiCamin", family |-> "amin", precision |-> "single complex"],
   [fn |-> "CLBlastiZamin", family |-> "amin", precision |-> "double complex"],
   [fn |-> "CLBlastiSmax", family |-> "max", precision |-> "single real"],
   [fn |-> "CLBlastiDmax", family |-> "max", precision |-> "double real"],
   [fn |-> "CLBlastiCmax", family |-> "max", precision |-> "single complex"],
   [fn |-> "CLBlastiZmax", family |-> "max", precision |-> "double complex"],
   [fn |-> "CLBlastiSmin", family |-> "min", precision |-> "single real"],
   [fn |-> "CLBlastiDmin", family |-> "min", precision |-> "double real"],
   [fn |-> "CLBlastiCmin", family |-> "min", precision |-> "single complex"],
   [fn |-> "CLBlastiZmin", family |-> "min", precision |-> "double complex"],
   [fn |-> "CLBlastSscal", family |-> "scal", precision |-> "single real"],
   [fn |-> "CLBlastDscal", family |-> "scal", precision |-> "double real"],
   [fn |-> "CLBlastCscal", family |-> "scal", precision |-> "single complex"],
   [fn |-> "CLBlastZscal", family |-> "scal", precision |-> "double complex"],
   [fn |-> "CLBlastSswap", family |-> "swap", precision |-> "single real"],
   [fn |-> "CLBlastDswap", family |-> "swap", precision |-> "double real"],
   [fn |-> "CLBlastCswap", family |-> "swap", precision |-> "single complex"],
   [fn |-> "CLBlastZswap", family |-> "swap", precision |-> "double complex"],
   [fn |-> "CLBlastScopy", family |-> "copy", precision |-> "single real"],
   [fn |-> "CLBlastDcopy", family |-> "copy", precision |-> "double real"],
   [fn |-> "CLBlastCcopy", family |-> "copy", precision |-> "single complex"],
   [fn |-> "CLBlastZcopy", family |-> "copy", precision |-> "double complex"],
   [fn |-> "CLBlastSaxpy", family |-> "axpy", precision |-> "single real"],
   [fn |-> "CLBlastDaxpy", family |-> "axpy", precision |-> "double real"],
   [fn |-> "CLBlastCaxpy", family |-> "axpy", precision |-> "single complex"],
   [fn |-> "CLBlastZaxpy", family |-> "axpy", precision |-> "double complex"],
   [fn |-> "CLBlastSdot", family |-> "dot", precision |-> "single real"],
   [fn |-> "CLBlastDdot", family |-> "dot", precision |-> "double real"],
   [fn |-> "CLBlastCdotu", family |-> "dot", precision |-> "single complex"],
   [fn |-> "CLBlastZdotu", family |-> "dot", precision |-> "double complex"],
   [fn |-> "CLBlastCdotc", family |-> "dotc", precision |-> "single complex"],
   [fn |-> "CLBlastZdotc", family |-> "dotc", precision |-> "double complex"],
   [fn |-> "CLBlastSgemm", family |-> "gemm", precision |-> "single real"],
   [fn |-> "CLBlastDgemm", family |-> "gemm", precision |-> "double real"],
   [fn |-> "CLBlastCgemm", family |-> "gemm", precision |-> "single complex"],
   [fn |-> "CLBlastZgemm", family |-> "gemm", precision |-> "double complex"]}

\* The parameters of the entry points of a family, in the order of the C
\* signature (gemm: as blast_sgemm of clblast-sys passes them to CLBlastSgemm).
CLBlastParams(family) ==
  CASE family = "sum" ->
         <<"n", "sum_buffer", "sum_offset", "x_buffer", "x_offset", "x_inc", "queue", "event">> []
       family = "asum" ->
         <<"n", "asum_buffer", "asum_offset", "x_buffer", "x_offset", "x_inc", "queue", "event">> []
       family = "nrm2" ->
         <<"n", "nrm2_buffer", "nrm2_offset", "x_buffer", "x_offset", "x_inc", "queue", "event">> []
       family = "amax" ->
         <<"n", "imax_buffer", "imax_offset", "x_buffer", "x_offset", "x_inc", "queue", "event">> []
       family = "amin" ->
         <<"n", "imin_buffer", "imin_offset", "x_buffer", "x_offset", "x_inc", "queue", "event">> []
       family = "max" ->
         <<"n", "imax_buffer", "imax_offset", "x_buffer", "x_offset", "x_inc", "queue", "event">> []
       family = "min" ->
         <<"n", "imin_buffer", "imin_offset", "x_buffer", "x_offset", "x_inc", "queue", "event">> []
       family = "scal" ->
         <<"n", "alpha", "x_buffer", "x_offset", "x_inc", "queue", "event">> []
       family = "swap" ->
         <<"n", "x_buffer", "x_offset", "x_inc", "y_buffer", "y_offset", "y_inc", "queue", "event">> []
       family = "copy" ->
         <<"n", "x_buffer", "x_offset", "x_inc", "y_buffer", "y_offset", "y_inc", "queue", "event">> []
       family = "axpy" ->
         <<"n", "alpha", "x_buffer", "x_offset", "x_inc", "y_buffer", "y_offset", "y_inc", "queue", "event">> []
       family = "dot" ->
         <<"n", "dot_buffer", "dot_offset", "x_buffer", "x_offset", "x_inc", "y_buffer", "y_offset", "y_inc", "queue", "event">> []
       family = "dotc" ->
         <<"n", "dot_buffer", "dot_offset", "x_buffer", "x_offset", "x_inc", "y_buffer", "y_offset", "y_inc", "queue", "event">> []
       family = "gemm" ->
         <<"layout", "a_transpose", "b_transpose", "m", "n", "k", "alpha", "a_buffer", "a_offset", "a_ld", "b_buffer", "b_offset", "b_ld", "beta", "c_buffer", "c_offset", "c_ld", "queue", "event">>

\* The routine family a descriptor type stands for.
FamilyOf(struct) ==
  CASE struct = "VectorSum" -> "sum" []
       struct = "VectorAbsoluteSum" -> "asum" []
       struct = "VectorEuclidianNorm" -> "nrm2" []
       struct = "VectorAbsoluteMaxIndex" -> "amax" []
       struct = "VectorAbsoluteMinIndex" -> "amin" []
       struct = "VectorMaxIndex" -> "max" []
       struct = "VectorMinIndex" -> "min" []
       struct = "VectorScale" -> "scal" []
       struct = "VectorSwap" -> "swap" []
       struct = "VectorCopy" -> "copy" []
       struct = "VectorAxpy" -> "axpy" []
       struct = "VectorDot" -> "dot" []
       struct = "VectorDotConjucate" -> "dotc" []
       struct = "Gemm" -> "gemm" []
       struct = "MatrixMultiplicationBuilder" -> "gemm"

\* The precision of a scalar type.
PrecisionOf(T) ==
  CASE T = "f32" -> "single real" []
       T = "f64" -> "double real" []
       T = "Complex32" -> "single complex" []
       T = "Complex64" -> "double complex"

\* The argument a native call received for the parameter `name` of its C
\* signature.
Param(call, family, name) ==
  LET ps == CLBlastParams(family)
  IN  call.args[CHOOSE i \in DOMAIN ps : ps[i] = name]

VectorStructs ==
  {"VectorSum", "VectorAbsoluteSum", "VectorEuclidianNorm", "VectorAbsoluteMaxIndex", "VectorAbsoluteMinIndex", "VectorMaxIndex", "VectorMinIndex", "VectorScale", "VectorSwap", "VectorCopy", "VectorAxpy", "VectorDot", "VectorDotConjucate"}

GemmStructs == {"Gemm", "MatrixMultiplicationBuilder"}

\* The input vectors of a vector descriptor, each with its stride.
Inputs(d) ==
  {[buf |-> d.x_vector, stride |-> d.x_stride]}
    \cup (IF "y_vector" \in DOMAIN d
          THEN {[buf |-> d.y_vector, stride |-> d.y_stride]}
          ELSE {})

\* The result buffers of a vector descriptor.
ResultFields ==
  {"sum_vector", "asum_vector", "nrm2_vector", "imax_vector", "imin_vector",
   "dot_buffer"}

ResultBuffers(d) == {d[f] : f \in DOMAIN d \cap ResultFields}

\* The matrix a gemm descriptor holds in field f (the builder holds Options).
GemmMatrix(d, f) == IF d.struct = "Gemm" THEN d[f] ELSE d[f].value

\* A gemm descriptor with its three matrices set.
HasMatrices(d) ==
  d.struct = "Gemm" \/ (None \notin {d.queue, d.a, d.b, d.c})

\* The wire form a scalar of type T has at the native call when it reaches
\* it unchanged.
IsWireOf(arg, T, v) ==
  IF IsComplex(T)
  THEN arg.s[1] = v.re /\ arg.s[2] = v.im /\ Len(arg.s) = 2
  ELSE arg = v

\* The status code an error stands for.
ErrCode(e) ==
  IF e.category = "Unknown" THEN e.status_code ELSE CLBlastStatusCode[e.source]

\* C4: a vector operation invokes its native entry point only if every
\* input vector satisfies len > offset + n * stride and every result buffer
\* holds an element at its offset; when n * stride > len - offset for an
\* input, run fails before any native call.
C4_CallOnlyIfBuffersFit ==
  (desc # NoDesc /\ desc.struct \in VectorStructs) =>
    /\ calls # <<>> =>
         /\ \A op \in Inputs(desc) :
              op.buf.len > op.buf.offset + desc.n * op.stride
         /\ \A r \in ResultBuffers(desc) : r.len > r.offset
    /\ (pc = "done" /\ \E op \in Inputs(desc) :
                         desc.n * op.stride > op.buf.len - op.buf.offset) =>
         calls = <<>> /\ result.tag = "Panic"

\* C5: Gemm::run and MatrixMultiplicationBuilder::run issue the native gemm
\* call only if a.columns = b.rows, b.columns = c.columns and c.rows =
\* a.rows; when one of the three fails, run ends with an assertion failure
\* and no native call.
C5_ShapeCheckedBeforeGemm ==
  (pc = "done" /\ desc # NoDesc /\ desc.struct \in GemmStructs) =>
    IF HasMatrices(desc)
    THEN LET a == GemmMatrix(desc, "a")
             b == GemmMatrix(desc, "b")
             c == GemmMatrix(desc, "c")
             fits == a.columns = b.rows /\ b.columns = c.columns /\ c.rows = a.rows
         IN  /\ calls # <<>> => fits
             /\ ~fits => calls = <<>> /\ result.tag = "Panic"
    ELSE calls = <<>>

C5_Witness ==
  /\ pc = "done"
  /\ desc # NoDesc
  /\ desc.struct = "Gemm"
  /\ desc.T = "Complex64"
  /\ desc.a.columns = desc.b.rows
  /\ desc.b.columns = desc.c.columns
  /\ desc.c.rows # desc.a.rows
  /\ calls = <<>>
  /\ result.tag = "Panic"

\* C6: every gemm call that passes the shape check hands the native entry
\* point m = rows of C (= rows of A), n = columns of B (= columns of C) and
\* k = columns of A (= rows of B), also when C is not square.
C6_NativeDimensions ==
  (pc = "done" /\ desc # NoDesc /\ desc.struct \in GemmStructs /\ calls # <<>>) =>
    LET a == GemmMatrix(desc, "a")
        b == GemmMatrix(desc, "b")
        c == GemmMatrix(desc, "c")
    IN  /\ Param(calls[1], "gemm", "m") = c.rows
        /\ Param(calls[1], "gemm", "m") = a.rows
        /\ Param(calls[1], "gemm", "n") = b.columns
        /\ Param(calls[1], "gemm", "n") = c.columns
        /\ Param(calls[1], "gemm", "k") = a.columns
        /\ Param(calls[1], "gemm", "k") = b.rows

\* C7: when the pre-call check passes, run returns the translation of the
\* status its one native call answered: Ok exactly when the status is the
\* success sentinel, otherwise Err with the error for that same code.
C7_RunReturnsTranslation ==
  (pc = "done" /\ desc # NoDesc /\ calls # <<>>) =>
    /\ Len(calls) = 1
    /\ Len(status) = 1
    /\ (result = Ok) <=> (status[1] = CLBlastStatusCode.Success)
    /\ status[1] # CLBlastStatusCode.Success =>
         /\ result.tag = "Err"
         /\ ErrCode(result.err) = status[1]
         /\ (result.err.category = "Unknown") <=> (status[1] \notin RecognisedCodes)

C7_Witness ==
  /\ pc = "done"
  /\ desc # NoDesc
  /\ desc.struct = "VectorCopy"
  /\ Len(calls) = 1
  /\ status = <<CLBlastStatusCode.InsufficientMemoryX>>
  /\ result = Err(Error_Blas("InsufficientMemoryX"))

\* C8: a run that reaches the native layer invokes exactly one entry point,
\* the one of the descriptor's family and of the precision of its scalar
\* type; the conjugated dot product runs only for the two complex types.
C8_StaticDispatch ==
  (pc = "done" /\ desc # NoDesc) =>
    /\ Len(calls) <= 1
    /\ calls # <<>> =>
         \E e \in CLBlastAPI :
           /\ e.fn = calls[1].fn
           /\ e.family = FamilyOf(desc.struct)
           /\ e.precision = PrecisionOf(desc.T)
    /\ desc.struct = "VectorDotConjucate" => IsComplex(desc.T)

C8_Witness ==
  /\ pc = "done"
  /\ desc # NoDesc
  /\ desc.struct = "VectorEuclidianNorm"
  /\ desc.T = "Complex64"
  /\ Len(calls) = 1
  /\ calls[1].fn = "CLBlastDznrm2"

\* C9: alpha and beta reach the native call unchanged: a real coefficient as
\* is, a complex one as the wire struct [re, im]; the native alpha of gemm
\* is the descriptor's alpha and the native beta the descriptor's beta.
C9_ScalarsUnchanged ==
  (pc = "done" /\ desc # NoDesc /\ calls # <<>>) =>
    LET family == FamilyOf(desc.struct)
    IN  /\ desc.struct \in {"VectorScale", "VectorAxpy", "Gemm"} =>
             IsWireOf(Param(calls[1], family, "alpha"), desc.T, desc.alpha)
        /\ desc.struct = "Gemm" =>
             IsWireOf(Param(calls[1], family, "beta"), desc.T, desc.beta)
        /\ desc.struct = "MatrixMultiplicationBuilder" =>
             /\ desc.alpha # None =>
                  Param(calls[1], family, "alpha") = desc.alpha.value
             /\ desc.beta # None =>
                  Param(calls[1], family, "beta") = desc.beta.value

C9_Witness ==
  /\ pc = "done"
  /\ desc # NoDesc
  /\ desc.struct = "Gemm"
  /\ desc.T = "Complex32"
  /\ desc.alpha = [re |-> 2, im |-> 3]
  /\ desc.beta = [re |-> 5, im |-> 7]
  /\ Len(calls) = 1
  /\ Param(calls[1], "gemm", "alpha").s = <<2, 3>>
  /\ Param(calls[1], "gemm", "beta").s = <<5, 7>>

\* The native increment parameter a stride field of a descriptor is for.
IncParam(field) ==
  CASE field = "x_stride" -> "x_inc" []
       field = "y_stride" -> "y_inc"

\* C10: a descriptor built without its optional fields uses the defaults at
\* dispatch: gemm receives alpha = 1, beta = 0 and transpose No for each one
\* left out, and a vector operation receives increment 1 for each stride
\* left out.
C10_DefaultsAtDispatch ==
  (pc = "done" /\ desc # NoDesc /\ calls # <<>>) =>
    LET family == FamilyOf(desc.struct)
        call == calls[1]
    IN  IF desc.struct \in GemmStructs
        THEN /\ "alpha" \in desc.defaulted =>
                  IsWireOf(Param(call, family, "alpha"), desc.T,
                           IF IsComplex(desc.T) THEN [re |-> 1, im |-> 0] ELSE 1)
             /\ "beta" \in desc.defaulted =>
                  IsWireOf(Param(call, family, "beta"), desc.T,
                           IF IsComplex(desc.T) THEN [re |-> 0, im |-> 0] ELSE 0)
             /\ "transpose_a" \in desc.defaulted =>
                  Param(call, family, "a_transpose")
                    = "CLBlastTranspose__CLBlastTransposeNo"
             /\ "transpose_b" \in desc.defaulted =>
                  Param(call, family, "b_transpose")
                    = "CLBlastTranspose__CLBlastTransposeNo"
        ELSE \A field \in desc.defaulted :
               Param(call, family, IncParam(field)) = 1

\* C11: MatrixBuffer::new succeeds only if rows * columns <= buffer.len();
\* the MatrixBuffer it returns has the given rows and columns and offset 0;
\* with rows * columns > buffer.len() it fails and returns no MatrixBuffer.
C11_NewChecksExtent ==
  (pc = "done" /\ desc # NoDesc /\ desc.struct = "MatrixBuffer::new") =>
    /\ result.tag \in {"MatrixBuffer", "Panic"}
    /\ result.tag = "MatrixBuffer" =>
         /\ desc.rows * desc.columns <= desc.buffer
         /\ result.rows = desc.rows
         /\ result.columns = desc.columns
         /\ result.offset = 0
    /\ desc.rows * desc.columns > desc.buffer => result.tag = "Panic"
    /\ calls = <<>>

C11_Witness ==
  /\ pc = "done"
  /\ desc # NoDesc
  /\ desc.struct = "MatrixBuffer::new"
  /\ desc.rows = 2
  /\ desc.columns = 1
  /\ desc.buffer = 1
  /\ result.tag = "Panic"

\* The minor dimension of a stored matrix: its columns under row-major, its
\* rows under column-major layout.
MinorDimension(mat) ==
  IF mat.layout = "LayoutRowMajor" THEN mat.columns ELSE mat.rows

\* C12: in every gemm call that reaches the native library the leading
\* dimension passed for each of A, B and C is at least that matrix's minor
\* dimension.
C12_LeadingDimensions ==
  (pc = "done" /\ desc # NoDesc /\ desc.struct \in GemmStructs /\ calls # <<>>) =>
    /\ Param(calls[1], "gemm", "a_ld") >= MinorDimension(GemmMatrix(desc, "a"))
    /\ Param(calls[1], "gemm", "b_ld") >= MinorDimension(GemmMatrix(desc, "b"))
    /\ Param(calls[1], "gemm", "c_ld") >= MinorDimension(GemmMatrix(desc, "c"))

\* C13: no vector operation issues a native call with a stride of 0: every
\* x_stride and y_stride handed to the native library is greater than 0.
C13_StridesPositive ==
  (pc = "done" /\ desc # NoDesc /\ desc.struct \in VectorStructs /\ calls # <<>>) =>
    \A op \in Inputs(desc) : op.stride > 0

\* The descriptors that have a run.
RunStructs == VectorStructs \cup GemmStructs

\* C14: a descriptor gives rise to at most one native call over its life:
\* none before run; in run exactly one when the pre-call check passes and
\* none when it fails; no second call after an error status; and after run
\* has returned or unwound the descriptor is gone, so nothing more happens.
C14_AtMostOneNativeCall ==
  /\ Len(calls) <= 1
  /\ pc # "done" => calls = <<>>
  /\ (pc = "done" /\ desc # NoDesc /\ desc.struct \in RunStructs) =>
       /\ result.tag \in {"Ok", "Err", "Panic"}
       /\ result.tag = "Panic" => calls = <<>> /\ status = <<>>
       /\ result.tag \in {"Ok", "Err"} => Len(calls) = 1 /\ Len(status) = 1
       /\ ~ENABLED Next

C14_Witness ==
  /\ pc = "done"
  /\ desc # NoDesc
  /\ desc.struct = "VectorSwap"
  /\ result.tag = "Err"
  /\ status = <<CLBlastStatusCode.InvalidCommandQueue>>
  /\ Len(calls) = 1

\* A dimension condition of the descriptor is violated: an input vector does
\* not hold offset + n * stride elements, or the gemm shapes do not chain.
DimensionViolated(d) ==
  IF d.struct \in VectorStructs
  THEN \E op \in Inputs(d) : op.buf.offset + d.n * op.stride > op.buf.len
  ELSE /\ HasMatrices(d)
       /\ ~(/\ GemmMatrix(d, "a").columns = GemmMatrix(d, "b").rows
            /\ GemmMatrix(d, "b").columns = GemmMatrix(d, "c").columns
            /\ GemmMatrix(d, "c").rows = GemmMatrix(d, "a").rows)

\* C15: the two failure channels never mix: a violated dimension condition
\* ends in an assertion failure before any native call, never in a value of
\* Result; a non-success native status comes back as Err, never as an
\* assertion failure.
C15_ChannelsNeverMix ==
  (pc = "done" /\ desc # NoDesc /\ desc.struct \in RunStructs) =>
    /\ DimensionViolated(desc) => result.tag = "Panic" /\ calls = <<>>
    /\ (calls # <<>> /\ status[1] # CLBlastStatusCode.Success) => result.tag = "Err"

\* C16: for row-major A (M x K), B (K x N) and C (M x N) that pass the shape
\* check, Gemm with the defaults leaves C equal to the product computed by
\* reference_implementation: the comparison of compare_reference_impl
\* succeeds for all sizes, also where C is not square.
C16_GemmEqualsReference ==
  (pc = "done" /\ desc # NoDesc /\ desc.struct = "compare_reference_impl") =>
    /\ result.tag = "Passed"
    /\ result.gpu_result = desc.reference_result

\* The status codes each tier recognises.
OclCodes == {c \in Codes : OclError_from_c(c) # None}

BlasCodes == {c \in Codes : BlasError_from_c(c) # None}

BlastCodes == {c \in Codes : BlastError_from_c(c) # None}

\* Within each tier every recognised code has a variant of its own.
DistinctVariants ==
  /\ \A c1, c2 \in OclCodes : OclError_from_c(c1) = OclError_from_c(c2) => c1 = c2
  /\ \A c1, c2 \in BlasCodes : BlasError_from_c(c1) = BlasError_from_c(c2) => c1 = c2
  /\ \A c1, c2 \in BlastCodes : BlastError_from_c(c1) = BlastError_from_c(c2) => c1 = c2

TierLookup(tier, c) ==
  CASE tier = "Ocl" -> map_Ocl(OclError_from_c(c)) []
       tier = "Blas" -> map_Blas(BlasError_from_c(c)) []
       tier = "Blast" -> map_Blast(BlastError_from_c(c))

Tiers == {"Ocl", "Blas", "Blast"}

\* The tiers that recognise a code.
TiersRecognising(c) == {tier \in Tiers : TierLookup(tier, c) # None}

\* The orders in which the three tiers can be looked up.
LookupOrders == {o \in [1..3 -> Tiers] : \A i, j \in 1..3 : o[i] = o[j] => i = j}

\* The translation of a non-success code when the tiers are tried in order o.
TranslateInOrder(o, c) ==
  IF TierLookup(o[1], c) # None THEN TierLookup(o[1], c).value
  ELSE IF TierLookup(o[2], c) # None THEN TierLookup(o[2], c).value
  ELSE IF TierLookup(o[3], c) # None THEN TierLookup(o[3], c).value
  ELSE Error_Unknown(c)

\* C18: no status code is recognised by more than one tier, so a non-success
\* code maps to exactly one of Ocl, Blas, Blast or Unknown and its
\* translation is the same under every lookup order of the tiers.
C18_TiersDisjoint ==
  (pc = "done" /\ desc = NoDesc) =>
    /\ Cardinality(TiersRecognising(status[1])) <= 1
    /\ status[1] # CLBlastStatusCode.Success =>
         \A o \in LookupOrders : result = Err(TranslateInOrder(o, status[1]))

C18_Witness ==
  /\ pc = "done"
  /\ desc = NoDesc
  /\ status[1] = CLBlastStatusCode.InsufficientMemoryTemp
  /\ TiersRecognising(status[1]) = {"Blast"}
  /\ result = Err(Error_Blast("InsufficientMemoryTemp"))

\* The functions of clblast-sys that call a native entry point.
SysFunctions ==
  {"blast_sgemm", "blast_dgemm", "blast_ssymm", "blast_dsymm", "clear_cache"}

\* C19 (as stated): every native call site reports a native failure as the
\* translated typed error: when a native entry point was called and answered a
\* status other than Success, the caller receives Err of the Error that the
\* translator gives for that status, in the clblast crate and in clblast-sys.
C19_FailuresAreTyped ==
  (/\ pc = "done"
   /\ calls # <<>>
   /\ status # <<>>
   /\ status[1] # CLBlastStatusCode.Success)
  => /\ result.tag = "Err"
     /\ ErrCode(result.err) = status[1]

\* The event out-parameter of a native call: its last argument.
EventArg(call) == call.args[Len(call.args)]

\* C20: no run and no wrapper waits for the enqueued work.  The only foreign
\* calls made are CLBlast entry points (clWaitForEvents is never called), at
\* most one per run, and the operation is over in the step that makes the call;
\* every run of the clblast crate passes a null event, and a wrapper of
\* clblast-sys passes an event exactly when its caller supplied one.
C20_NoWaitForEvents ==
  /\ \A i \in DOMAIN calls : calls[i].fn # "clWaitForEvents"
  /\ Len(calls) <= 1
  /\ calls # <<>> => pc = "done"
  /\ (calls # <<>> /\ desc.struct \in RunStructs) =>
       EventArg(calls[1]) = NullPtr
  /\ (calls # <<>> /\ desc.struct \in SysFunctions \ {"clear_cache"}) =>
       /\ (desc.in.event = None <=> EventArg(calls[1]) = NullPtr)
       /\ (desc.in.event # None =>
             EventArg(calls[1]) = alloc_new(desc.in.event.value))

\* C20 witness: blast_sgemm was given an event, has made its native call with
\* that event and has returned Ok.
C20_Witness ==
  /\ pc = "done"
  /\ desc # NoDesc
  /\ desc.struct = "blast_sgemm"
  /\ desc.in.event = Some("event")
  /\ calls # <<>>
  /\ EventArg(calls[1]) # NullPtr
  /\ status = <<CLBlastStatusCode.Success>>
  /\ result = Ok

\* The reductions: one input vector x and a one-element result.
Reductions ==
  {"VectorSum", "VectorAbsoluteSum", "VectorAbsoluteMaxIndex",
   "VectorAbsoluteMinIndex", "VectorMaxIndex", "VectorMinIndex"}

\* C22 (as stated): for sum, asum, amax, amin, max and min the pre-call check
\* is about the x vector: run is rejected exactly when the buffer of x_vector
\* is too short for n and x_stride (the test nrm2 makes on x), whatever the
\* length of the result buffer.
C22_ReductionChecksX ==
  (pc = "done" /\ desc # NoDesc /\ desc.struct \in Reductions) =>
    (result.tag = "Panic" <=> ~(desc.x_vector.len > desc.n * desc.x_stride))

\* C23 (as stated): every level-1 operation hands each vector operand to the
\* native entry point as (buffer, offset, stride): the offset of x_vector in
\* the x_offset position and x_stride in the x_inc position, and the same
\* for y.
C23_OffsetThenStride ==
  (pc = "done" /\ desc # NoDesc /\ desc.struct \in VectorStructs /\ calls # <<>>) =>
    LET family == FamilyOf(desc.struct)
    IN  /\ Param(calls[1], family, "x_buffer") = "x_vector"
        /\ Param(calls[1], family, "x_offset") = desc.x_vector.offset
        /\ Param(calls[1], family, "x_inc") = desc.x_stride
        /\ "y_vector" \in DOMAIN desc =>
             /\ Param(calls[1], family, "y_buffer") = "y_vector"
             /\ Param(calls[1], family, "y_offset") = desc.y_vector.offset
             /\ Param(calls[1], family, "y_inc") = desc.y_stride

\* The three transpose flags.
Transposes == {"No", "Yes", "Conjugate"}

\* C24: the outcome of the Gemm shape check does not depend on the transpose
\* flags: run is accepted exactly when the stored rows and columns chain
\* (a.columns = b.rows, b.columns = c.columns, c.rows = a.rows), and for the
\* same three matrices the check gives the same answer under each of the nine
\* combinations of transpose_a and transpose_b.
C24_TransposeIndependent ==
  (pc = "done" /\ desc # NoDesc /\ desc.struct \in GemmStructs /\ HasMatrices(desc)) =>
    LET a == GemmMatrix(desc, "a")
        b == GemmMatrix(desc, "b")
        c == GemmMatrix(desc, "c")
        accepted == result.tag # "Panic"
    IN  /\ accepted <=> (a.columns = b.rows /\ b.columns = c.columns /\ c.rows = a.rows)
        /\ accepted <=> calls # <<>>
        /\ \A ta \in Transposes, tb \in Transposes :
             (gemm_assert_dimensions(
                [a |-> a, b |-> b, c |-> c,
                 transpose_a |-> ta, transpose_b |-> tb]).tag # "Panic")
               <=> accepted

\* C24 witness: a Gemm with transpose_a = Yes whose stored shapes chain
\* (A is 1 x 2, so the shapes of op(A) and B would not) was accepted.
C24_Witness ==
  /\ pc = "done"
  /\ desc # NoDesc
  /\ desc.struct = "Gemm"
  /\ desc.transpose_a = "Yes"
  /\ desc.transpose_b = "Conjugate"
  /\ desc.a.rows = 1
  /\ desc.a.columns = 2
  /\ desc.b.rows = 2
  /\ calls # <<>>
  /\ result = Ok

\* C25 (as stated): a vector operation all of whose operands satisfy
\* offset + n * stride <= buffer.length (a result buffer holding one element
\* at its offset) is accepted by the pre-call check and reaches the native
\* call.
C25_InvariantSuffices ==
  (/\ pc = "done"
   /\ desc # NoDesc
   /\ desc.struct \in VectorStructs
   /\ \A op \in Inputs(desc) :
        op.buf.offset + desc.n * op.stride <= op.buf.len
   /\ \A r \in ResultBuffers(desc) : r.offset + 1 <= r.len)
  => /\ result.tag # "Panic"
     /\ calls # <<>>

\* C26: the pre-call dimension check is pure.  The step of run that makes the
\* check leaves the descriptor and the shape of its buffer views as they
\* were; when the check rejects, the log of native calls and the statuses are
\* as before; when it accepts, the only native call is the one run makes
\* after it, with the n (or m, n, k) of the unchanged descriptor.
C26_CheckIsPure ==
  [][(pc = "built" /\ desc.struct \in RunStructs) =>
       /\ desc' = desc
       /\ result'.tag = "Panic" => calls' = calls /\ status' = status
       /\ result'.tag # "Panic" =>
            /\ calls' = Append(calls, calls'[Len(calls')])
            /\ desc.struct \in VectorStructs =>
                 Param(calls'[Len(calls')], FamilyOf(desc.struct), "n") = desc.n]_vars

\* C26 witness: the check of a VectorAxpy rejected its y operand, and the
\* descriptor is as it was built.
C26_Witness ==
  /\ pc = "done"
  /\ desc # NoDesc
  /\ desc.struct = "VectorAxpy"
  /\ desc.x_vector.len > desc.n * desc.x_stride
  /\ ~(desc.y_vector.len > desc.n * desc.y_stride)
  /\ result = Panic("y buffer is too short for n and y_stride")
  /\ calls = <<>>
  /\ status = <<>>

\* The three tiers of the two copies have the same arms and answer alike on
\* every code.
TiersAgree ==
  /\ sys_OclError_arms = OclError_arms
  /\ sys_BlasError_arms = BlasError_arms
  /\ sys_BlastError_arms = BlastError_arms
  /\ \A c \in Codes :
       /\ sys_OclError_from_c(c) = OclError_from_c(c)
       /\ sys_BlasError_from_c(c) = BlasError_from_c(c)
       /\ sys_BlastError_from_c(c) = BlastError_from_c(c)

\* C29: the translator of clblast-sys and the translator of clblast agree on
\* every status code: the two arm lists are the same tier by tier, and for the
\* code just translated both answer Ok, or both answer Err of the same
\* category and variant, or both Unknown with the same raw code.
C29_TranslatorsAgree ==
  /\ TiersAgree
  /\ pc = "done" =>
       /\ sys_Error_from_c_either(status[1]) = Error_from_c_either(status[1])
       /\ sys_Error_from_c_either(status[1]) = result
       /\ (sys_Error_from_c_either(status[1]) = Ok) <=> (result = Ok)

\* C29 witness: the code InsufficientMemoryTemp, which clblast matches with a
\* guard arm and clblast-sys with a pattern, was translated to the same Blast
\* error by both.
C29_Witness ==
  /\ pc = "done"
  /\ status = <<CLBlastStatusCode.InsufficientMemoryTemp>>
  /\ result = Err(Error_Blast("InsufficientMemoryTemp"))
  /\ sys_Error_from_c_either(status[1]) = result

\* The entry of the product of the row-major no_streams x no_streams matrix
\* with the row-major no_streams x no_samples sample matrix in row y,
\* column x (both from 0).
ProductEntry(d, x, y) ==
  LET S[k \in 0..d.no_streams] ==
        IF k = 0
        THEN 0
        ELSE S[k - 1] + d.samples[x + d.no_samples * (k - 1) + 1]
                          * d.matrix[y * d.no_streams + (k - 1) + 1]
  IN  S[d.no_streams]

\* The result of a finished test or call as one flat vector.
FlatResult ==
  IF desc.struct \in {"test_reference", "reference_implementation"}
  THEN result.res
  ELSE [p \in 1..(desc.no_samples * desc.no_streams) |->
          result.res[((p - 1) \div desc.no_samples) + 1][((p - 1) % desc.no_samples) + 1]]

\* C28: reference_implementation returns, at position x + y * no_samples, the
\* sum over k < no_streams of samples[x + no_samples * k] * matrix[y *
\* no_streams + k]; the copy of gemm.rs returns the same numbers cut into
\* rows of no_samples; and for the 3 x 5 fixture the result is
\* [29,34,39,46,53,60,93,108,123,0,0,0,102,117,132], so the tests pass.
C28_ReferenceIsProduct ==
  (pc = "done" /\ desc # NoDesc) =>
    /\ result.tag \in {"Passed", "Returned"}
    /\ Len(FlatResult) = desc.no_samples * desc.no_streams
    /\ \A x \in 0..(desc.no_samples - 1), y \in 0..(desc.no_streams - 1) :
         FlatResult[x + y * desc.no_samples + 1] = ProductEntry(desc, x, y)
    /\ desc.struct = "reference_implementation" =>
         /\ Len(result.rows) = desc.no_streams
         /\ \A y \in 1..desc.no_streams :
              result.rows[y] =
                SubSeq(result.res, (y - 1) * desc.no_samples + 1, y * desc.no_samples)
    /\ desc.struct \in {"test_reference", "test_reference_3_5"} =>
         FlatResult = <<29, 34, 39, 46, 53, 60, 93, 108, 123, 0, 0, 0, 102, 117, 132>>

\* C28 witness: reference_implementation was applied to a 2 x 2 matrix that
\* is not symmetric and to two samples per stream that differ.
C28_Witness ==
  /\ pc = "done"
  /\ desc # NoDesc
  /\ desc.struct = "reference_implementation"
  /\ desc.no_samples = 2
  /\ desc.no_streams = 2
  /\ desc.matrix = <<1, 2, 1, 1>>
  /\ desc.samples = <<1, 2, 2, 1>>
  /\ result.res = <<5, 4, 3, 3>>

\* C30 (as stated): the products of the pre-call checks never wrap: when the
\* true product of n and a stride (of rows and columns in MatrixBuffer::new)
\* does not fit usize, no native call is issued and no MatrixBuffer is built.
C30_NoWraparound ==
  (pc = "done" /\ desc # NoDesc) =>
    /\ (/\ desc.struct \in VectorStructs
        /\ \E op \in Inputs(desc) : Overflows(desc.n, op.stride))
       => calls = <<>> /\ result.tag = "Panic"
    /\ (/\ desc.struct = "MatrixBuffer::new"
        /\ Overflows(desc.rows, desc.columns))
       => result.tag = "Panic"

\* The native call the run of descriptor d makes: an entry point of d's
\* routine family and precision, with d's n, on d's queue.
IsCallOf(call, d) ==
  /\ \E api \in CLBlastAPI :
       /\ api.fn = call.fn
       /\ api.family = FamilyOf(d.struct)
       /\ api.precision = PrecisionOf(d.T)
  /\ Param(call, FamilyOf(d.struct), "n") = d.n
  /\ Param(call, FamilyOf(d.struct), "queue") = d.queue

\* C27: for a sequence of run invocations of one caller on the same queue,
\* the native calls are issued in the order of the invocations: each run
\* either issues nothing (it panicked) or puts its own call behind all the
\* earlier ones in the step in which it returns, and nothing else changes the
\* sequence of issued calls.
C27_EnqueueOrder ==
  [][/\ pc = "built" =>
          \/ /\ calls' = calls
             /\ result'.tag = "Panic"
          \/ /\ Len(calls') = Len(calls) + 1
             /\ SubSeq(calls', 1, Len(calls)) = calls
             /\ IsCallOf(calls'[Len(calls')], desc)
             /\ pc' = "done"
             /\ result'.tag \in {"Ok", "Err"}
     /\ pc # "built" => calls' = calls
     /\ Len(calls') <= MaxRuns]_vars

\* C27 witness: the caller ran an axpy and then a scal; the queue holds the
\* axpy call first and the scal call second.
C27_Witness ==
  /\ pc = "done"
  /\ desc # NoDesc
  /\ desc.struct = "VectorScale"
  /\ Len(calls) = 2
  /\ calls[1].fn = "CLBlastSaxpy"
  /\ calls[2].fn = "CLBlastDscal"
  /\ result = Ok

\* C21: clear_cache is one native call behind no lock.  Whatever the other
\* thread and the device are doing, clear_cache can enter its native call and
\* return from it, and run can enter its native call and return from it: the
\* binding blocks and delays neither.  It rejects neither: clear_cache hands
\* back the status of its native call, and run is turned down only by its own
\* dimension check.  Each thread makes at most one native call.
C21_ClearCacheUnguarded ==
  /\ pc.clearer = "idle" => ENABLED clear_cache_call
  /\ pc.clearer = "in_native" => ENABLED clear_cache_return
  /\ pc.runner = "built" => ENABLED runner_run_call
  /\ pc.runner = "in_native" => ENABLED runner_run_return
  /\ pc.clearer = "done" => result.clearer.tag = "CLBlastStatusCode"
  /\ pc.runner = "done" =>
       (result.runner.tag = "Panic" <=> scal_assert_dimensions(desc).tag = "Panic")
  /\ Len(SelectSeq(calls, LAMBDA c : c.fn = "CLBlastClearCache")) <= 1
  /\ Len(calls) <= 2

\* C21 witness: clear_cache is inside its native call while the operation the
\* runner enqueued is still in flight on the queue.
C21_Witness ==
  /\ pc.clearer = "in_native"
  /\ pc.runner = "done"
  /\ pc.device = "busy"
  /\ result.runner = Ok
  /\ calls[Len(calls)].fn = "CLBlastClearCache"

=============================================================================
